---- MODULE Spec2Model ----
(***************************************************************************)
(* A state-machine model of infinitree: the VersionedMap index field, the  *)
(* object writers, the sealed root and the commit orchestration of         *)
(* Infinitree over a backend whose writes may fail.                        *)
(*                                                                         *)
(* The specifications are given over the same variables.                   *)
(*   SpecVMap   : a bare VersionedMap driven by insert / update_with /     *)
(*                remove / commit / rollback.                              *)
(*   Spec       : an Infinitree<VersionedMap> over one backend: the map    *)
(*                operations, commit in its steps with backend writes that *)
(*                may fail, open and load_all.                             *)
(*   SpecFilter : the same tree over a backend that does not fail, with    *)
(*                filter_commits and load_all.                             *)
(*   SpecQuery  : load, query and iteration of a field of the tree.        *)
(*   SpecCache, SpecCacheRace : the Cache backend, on one thread and with  *)
(*                keep_warm beside write_object.                           *)
(*   SpecPool   : the Pool and its leases.                                 *)
(*   SpecBuffered : BufferedSink and BufferedStream.                       *)
(*   SpecCodec  : RawChunkPointer::write_to and parse.                     *)
(*   SpecHeader : seal_header and open_header.                             *)
(*   SpecRotate : a tree opened with a ChangeHeaderKey and resealed.       *)
(*   SpecS3     : the InFlightTracker of the S3 backend.                   *)
(*   SpecBlobs  : blobs written through a writer of the tree.              *)
(*   SpecList, SpecListPush : the LinkedList field, on one thread with     *)
(*                store and rollback, and with pushes of two threads.      *)
(*   SpecMap    : Map::insert of two threads.                              *)
(*   SpecVStore : a store of a VersionedMap beside its writers.            *)
(*   SpecDirectory : the Directory backend with its read cache.            *)
(*   SpecWriter : an AEADWriter by the byte.                               *)
(***************************************************************************)
EXTENDS Integers, Sequences, FiniteSets, TLC

(***************************************************************************)
(* Bounds of the model.                                                    *)
(***************************************************************************)
\* number of distinct keys offered to the map
NumKeys == 2
\* number of distinct values offered to the map
NumVals == 2
\* number of distinct keys and values a client of the tree writes
NumTreeKeys == 1
NumTreeVals == 1
\* records that fill one chunk of a BufferedSink (CHUNK_SIZE, scaled)
ChunkRecs == 2
\* records that fill one object (BLOCK_SIZE, scaled)
ObjCap == 5
\* a commit is started only while the commit list is shorter than this
MaxCommits == 3
\* a commit is started only while the next fresh ObjectId is at most this
MaxOid == 5
\* backend writes that fail over one run
MaxFaults == 1
\* number of distinct values offered to the maps of an index field
NumFieldVals == 1
\* a list takes a push only while it is shorter than this
MaxItems == 3
\* a list takes a push only while it has fewer nodes than this
MaxNodes == 3
\* number of distinct values pushed to a LinkedList
NumListVals == 2
\* threads that push to one LinkedList
NumListThreads == 2
\* bytes of the header region of a root object (header_size, scaled)
RootSkip == 2
\* a chunk has at most this many bytes when compressed
MaxChunkSize == 4
\* ObjectIds that a root writer is given to rewrite
NumRewriteIds == 2
\* pointers a writer returns and objects it flushes over one run
MaxPointers == 4
MaxFlushes == 3
\* stores of a VersionedMap beside its writers over one run
MaxVStores == 2
\* threads that insert into one Map
NumMapThreads == 2
\* commits of a LinkedList field over one run
MaxListStores == 2
\* number of distinct ObjectIds offered to the cache
NumObjIds == 3
\* number of ids whose object is written again with another content (the
\* root object); an object of any other id has one content
NumRewritten == 1
\* number of contents an object that is written again goes through
NumVersions == 2
\* size_limit of the cache, in the units of BLOCK_SIZE
SizeLimit == 5
\* threads that lease from a Pool
NumThreads == 3
\* a Pool is built with at most this many instances
MaxPool == 2
\* number of distinct bytes written to a BufferedSink
NumBytes == 2
\* a BufferedSink takes a write only while it has taken fewer bytes than
\* this since its last clear, and one write is of at most MaxWrite bytes
MaxWritten == 5
MaxWrite == 3
\* Streams that one BufferedSink returns, by clear or by finish
MaxClears == 2
\* a BufferedStream is read into buffers of at most this many bytes
MaxRead == 2
\* number of distinct bytes in the ids, keys and tags of a RawChunkPointer
NumCodecBytes == 2
\* a RawChunkPointer is written into buffers of its size up to this many
\* bytes more
MaxSlack == 1

\* the ObjectIds written to the S3 backend, the tasks it spawns and the
\* permits of its semaphore
NumS3Ids == 2
MaxTasks == 3
NumPermits == 2

\* the commits of a tree whose header key is changed
MaxRotCommits == 2
\* the values that the field of that tree holds
NumRotVals == 2

\* the index keys under which blobs are written, and the length of a blob
NumBlobKeys == 3
MaxBlobLen == 2
\* a field is committed only while its transaction list is shorter than this
MaxStreams == 2

Keys == 1..NumKeys
Vals == 1..NumVals
FieldVals == 1..NumFieldVals
ObjIds == 1..NumObjIds
VersionsOf(id) == IF id <= NumRewritten THEN 1..NumVersions ELSE {1}
TreeKeys == 1..NumTreeKeys
TreeVals == 1..NumTreeVals

\* Option::None of an Action<V> = Option<Arc<V>>; Some(v) is v itself.
None == 0

\* the root ObjectId, derived from the key; fresh ObjectIds are 1, 2, ...
ROOT == 0

VARIABLES
    \* VersionedMap (fields/versioned/map.rs)
    base,            \* VersionedMap.base    : key -> Action<V>
    current,         \* VersionedMap.current : key -> Action<V>
    \* observation of the last call made on the map or the tree
    lastOp,          \* name of the last operation
    status,          \* "ok", "err" or "panic": how the last tree call ended
    cret,            \* Option<Commit> returned by the last commit
    \* history of the writes made through the map's public operations
    hist,            \* key -> value of the most recent write still in effect
    histBase,        \* hist as of the last commit of the map
    \* the backend and the source of random ObjectIds
    backend,         \* ObjectId -> object handed to write_object
    nextOid,         \* the next ObjectId that ObjectId::new draws
    faults,          \* the writes the backend has failed so far
    \* RootIndex (tree/root.rs) and Infinitree (tree.rs)
    transaction_log, \* newest first: [id, field, stream]
    commit_list,     \* oldest first: [id, metadata]
    objects,         \* objects that hold the root tier
    shadow_root,     \* ObjectId the root writer had before the seal
    commit_filter,   \* the active CommitFilter
    \* a commit in flight
    pc,              \* position of the tree's client
    sink,            \* AEADWriter under the BufferedSink of commit_with_metadata
    writer,          \* AEADWriter of sealed_root::commit
    pending,         \* locals of the commit in flight
    \* observations over the run
    issued,          \* the backend writes of the latest commit, in order
    sealed,          \* the tree as of the last commit that returned Ok
    failed,          \* a commit failed since then
    reopened,        \* Infinitree::open has been called in this run
    \* an index of one field "root" and the queries made on it
    kind,            \* the collection type of the field
    collection,      \* the field in memory
    streams,         \* TransactionList of the field, newest first: the records
    contents,        \* what the field held at each of these commits
    loaded,          \* the last load, query or iteration and what it gave
    \* Cache (backends/cache.rs) over a Directory and an upstream backend
    upstream,        \* ObjectId -> version of the object upstream, 0 if none
    files,           \* ObjectId -> version of the local file, 0 if none
    read_lru,        \* Directory.read_lru: ObjectId -> version held, 0 if none
    file_list,       \* Cache.file_list: the ids of the LRU, oldest first
    warm,            \* Cache.warm
    mmap,            \* the build has the feature "mmap"
    used,            \* the ids in the order of their last write or read
    kept,            \* the ids of the last keep_warm that returned Ok
    out,             \* the last call on the cache and its result
    kw,              \* a keep_warm in progress on one thread
    wr,              \* a write_object in progress on another thread
    \* Pool (object/pool.rs)
    pool,            \* Pool: count, the channel of instances, constructor
    leases,          \* thread -> its call of lease or the PoolRef it holds
    \* BufferedSink and BufferedStream (object/bufferedstream.rs)
    bsink,           \* BufferedSink: buffer, chunks, pos, len
    bwriter,         \* its AEADWriter, with the backend it writes to
    written,         \* the bytes written to the sink since its last clear
    returned,        \* the Streams the sink returned, with their bytes
    bstream,         \* BufferedStream: chunks, pos, len, buffer
    readback,        \* the bytes read from the BufferedStream
    \* RawChunkPointer (chunks.rs)
    endian,          \* the byte order of the machine
    rawptr,          \* the RawChunkPointer that is written
    codec,           \* the last write_to or parse and what it gave
    \* the sealed header (crypto/symmetric.rs, crypto/scheme.rs)
    hdr,             \* a header that is sealed and then opened
    rot,             \* a tree whose header key is changed
    \* InFlightTracker of the S3 backend (infinitree-backends/src/s3.rs)
    tracker,         \* the writes in flight and the calls on the backend
    \* AEADWriter (object/writer.rs)
    blobs,           \* a writer of the tree and what its writes returned
    \* LinkedList (fields/versioned/list.rs)
    list,            \* the nodes and markers of a list, and its threads
    \* Map (fields/map.rs)
    cmap,            \* a shared Map and the threads that insert into it
    \* Store for VersionedMap (fields/versioned/map.rs)
    vstore,          \* a store of the map in progress and the streams
    \* AEADWriter by the byte (object/writer.rs)
    aead             \* a writer, the pointers it returned and its flushes

vmapVars == <<base, current, lastOp, hist, histBase>>

treeVars == <<status, cret, backend, nextOid, faults, transaction_log, commit_list,
              objects, shadow_root, commit_filter, pc, sink, writer, pending,
              issued, sealed, failed, reopened>>

queryVars == <<kind, collection, streams, contents, loaded>>

cacheVars == <<upstream, files, read_lru, file_list, warm, mmap, used, kept,
               out, kw, wr>>

poolVars == <<pool, leases>>

streamVars == <<bsink, bwriter, written, returned, bstream, readback>>

codecVars == <<endian, rawptr, codec>>

headerVars == <<hdr, rot>>

s3Vars == <<tracker>>

blobVars == <<blobs>>

listVars == <<list>>

mapVars == <<cmap>>

vstoreVars == <<vstore>>

writerVars == <<aead>>

moreVars == <<listVars, mapVars, vstoreVars, writerVars>>

lateVars == <<headerVars, s3Vars, blobVars, moreVars>>

exceptPool == <<streamVars, codecVars, lateVars>>

exceptStream == <<poolVars, codecVars, lateVars>>

exceptCodec == <<poolVars, streamVars, lateVars>>

exceptHeader == <<poolVars, streamVars, s3Vars, blobVars, moreVars>>

exceptS3 == <<poolVars, streamVars, codecVars, headerVars, blobVars,
             moreVars>>

exceptBlobs == <<poolVars, streamVars, codecVars, headerVars, s3Vars,
                moreVars>>

firstVars == <<poolVars, streamVars, codecVars, headerVars, s3Vars,
              blobVars>>

exceptList == <<firstVars, mapVars, vstoreVars, writerVars>>

exceptMap == <<firstVars, listVars, vstoreVars, writerVars>>

exceptVStore == <<firstVars, listVars, mapVars, writerVars>>

exceptWriter == <<firstVars, listVars, mapVars, vstoreVars>>

auxVars == <<poolVars, streamVars, codecVars, lateVars>>

extVars == <<queryVars, cacheVars, auxVars>>

vars == <<base, current, lastOp, hist, histBase, status, cret, backend,
          nextOid, faults, transaction_log, commit_list, objects, shadow_root,
          commit_filter, pc, sink, writer, pending, issued, sealed, failed,
          reopened, kind, collection, streams, contents, loaded, upstream,
          files, read_lru, file_list, warm, mmap, used, kept, out, kw, wr,
          pool, leases, bsink, bwriter, written, returned, bstream,
          readback, endian, rawptr, codec, hdr, rot, tracker, blobs, list,
          cmap, vstore, aead>>

(***************************************************************************)
(* Finite maps: a HashMap<K, Action<V>> is a function on the set of keys   *)
(* that have an entry.                                                     *)
(***************************************************************************)
EmptyMap == [k \in {} |-> None]

MapPut(m, k, v) == [x \in (DOMAIN m) \cup {k} |-> IF x = k THEN v ELSE m[x]]

MapDel(m, k) == [x \in (DOMAIN m) \ {k} |-> m[x]]

(***************************************************************************)
(* VersionedMap, pure part.                                                *)
(***************************************************************************)
\* VersionedMap::get: current first, then base, then flatten.
Get(b, c, k) ==
    IF k \in DOMAIN c THEN c[k]
    ELSE IF k \in DOMAIN b THEN b[k]
    ELSE None

\* VersionedMap::contains
Contains(b, c, k) ==
    IF k \in DOMAIN c THEN c[k] # None
    ELSE IF k \in DOMAIN b THEN b[k] # None
    ELSE FALSE

\* VersionedMap::insert_with: the new `current`
InsertWith(b, c, k, v) ==
    IF Get(b, c, k) # None THEN c
    ELSE IF k \in DOMAIN c /\ c[k] # None THEN c
    ELSE MapPut(c, k, v)

\* VersionedMap::update_with: the new `current`
UpdateWith(b, c, k, v) ==
    IF Get(b, c, k) # None THEN MapPut(c, k, v) ELSE c

\* a remove that forgets the tombstone for a key held only by the base
RemoveNoTombstone(b, c, k) ==
    IF k \in DOMAIN c THEN MapPut(c, k, None) ELSE c

\* VersionedMap::remove: the new `current`
Remove(b, c, k) ==
    IF Contains(b, c, k) THEN MapPut(c, k, None) ELSE c

\* VersionedMap::commit: the new `base` (current.retain visits every entry
\* of current once; the entries touch disjoint keys of base)
CommitFold(b, c) ==
    LET removed == {k \in DOMAIN c : k \in DOMAIN b /\ c[k] = None}
        stored  == (DOMAIN c) \ removed
    IN  [k \in ((DOMAIN b) \ removed) \cup stored |->
            IF k \in stored THEN c[k] ELSE b[k]]

\* VersionedMap::len. The sum is computed in usize: a result below zero is
\* reported as -1 (a panic on overflow in debug builds, a wrapped value in
\* release builds).
VLen(b, c) ==
    LET stored == Cardinality(DOMAIN b)
                  + Cardinality({k \in DOMAIN c : c[k] # None})
                  - Cardinality({k \in DOMAIN c : c[k] = None})
    IN  IF stored < 0 THEN -1 ELSE stored

\* VersionedMap::size
VSize(b, c) == Cardinality(DOMAIN b) + Cardinality(DOMAIN c)

(***************************************************************************)
(* Objects, chunk pointers and the AEADWriter.                             *)
(*                                                                         *)
(* A chunk is a sequence of records and takes as many units of an object   *)
(* as it has records. The tag of a ChunkPointer stands for the chunk it    *)
(* authenticates: a read succeeds when the object holds that chunk at the  *)
(* pointer's offset.                                                       *)
(***************************************************************************)
Min(a, b) == IF a < b THEN a ELSE b

\* the element of a set of one element: The({e : x \in {v}}) is e with x
\* naming the value of v
The(S) == CHOOSE r \in S : TRUE

\* the header region of an object that holds no sealed header
RandomHead == <<>>

ChunkPointer(oid, offs, data) == [object |-> oid, offs |-> offs, tag |-> data]

\* Stream::objects
StreamObjects(stream) == {stream[i].object : i \in DOMAIN stream}

\* no writer: the value of `sink` and `writer` outside a commit
NoWriter ==
    [id |-> ROOT, chunks |-> <<>>, pos |-> 0, mode |-> "None", rewrite |-> <<>>]

\* AEADWriter::new
DataWriter(id) ==
    [id |-> id, chunks |-> <<>>, pos |-> 0, mode |-> "Data", rewrite |-> <<>>]

\* AEADWriter::for_root: the id is popped from `rewrite`, else it is random
RootWriter(rewrite, fresh) ==
    LET n == Len(rewrite)
    IN  [id      |-> IF n > 0 THEN rewrite[n] ELSE fresh,
         chunks  |-> <<>>,
         pos     |-> 0,
         mode    |-> "SealRoot",
         rewrite |-> IF n > 0 THEN SubSeq(rewrite, 1, n - 1) ELSE <<>>]

\* a writer together with the backend it writes to, the next random
\* ObjectId, the pointers it has returned and the writes it has issued
WriterState(w, be, next, log) ==
    [w |-> w, be |-> be, next |-> next, err |-> FALSE, ptrs |-> <<>>,
     log |-> log, faults |-> 0]

\* one entry of `issued`
Issued(oid, head) == [object |-> oid, sealed |-> head # RandomHead]

\* AEADWriter::flush; `fail` is the outcome of Backend::write_object. In
\* SealRoot mode the header region is filled with random bytes.
Flush(state, fail) ==
    The({ (IF fail THEN [st EXCEPT !.err = TRUE, !.faults = @ + 1]
           ELSE LET w == st.w
                    n == Len(w.rewrite)
                IN  [st EXCEPT
                       !.be   = MapPut(st.be, w.id,
                                   [head |-> RandomHead, chunks |-> w.chunks]),
                       !.log  = Append(st.log, Issued(w.id, RandomHead)),
                       !.next = IF n > 0 THEN st.next ELSE st.next + 1,
                       !.w    = [w EXCEPT
                                   !.id      = IF n > 0 THEN w.rewrite[n]
                                               ELSE st.next,
                                   !.rewrite = IF n > 0
                                               THEN SubSeq(w.rewrite, 1, n - 1)
                                               ELSE <<>>,
                                   !.chunks  = <<>>,
                                   !.pos     = 0]])
          : st \in {state} })

\* AEADWriter::write_chunk: flush when the chunk does not fit the tail, then
\* ChunkTooLarge when it does not fit an empty object either
WriteChunk(state, chunk, fail) ==
    The({ (IF st.err THEN st
           ELSE The({ (IF s1.err THEN s1
                       ELSE IF s1.w.pos + Len(data) > ObjCap
                            THEN [s1 EXCEPT !.err = TRUE]
                       ELSE [s1 EXCEPT
                               !.w.chunks = Append(@, [offs |-> s1.w.pos,
                                                       data |-> data]),
                               !.w.pos    = @ + Len(data),
                               !.ptrs     = Append(@,
                                              ChunkPointer(s1.w.id, s1.w.pos,
                                                           data))])
                      : s1 \in {IF st.w.pos + Len(data) <= ObjCap THEN st
                                ELSE Flush(st, fail)} }))
          : st \in {state}, data \in {chunk} })

\* BufferedSink::write of the records followed by BufferedSink::clear: a
\* chunk for every ChunkRecs records and one for the rest; the Stream is
\* the `ptrs` of the result
RECURSIVE SinkStream(_, _, _)
SinkStream(st, records, fail) ==
    The({ (IF recs = <<>> THEN st
           ELSE LET n == Min(ChunkRecs, Len(recs))
                IN  SinkStream(WriteChunk(st, SubSeq(recs, 1, n), fail),
                               SubSeq(recs, n + 1, Len(recs)), fail))
          : recs \in {records} })

\* a new Stream on the same writer
NextStream(st) == [st EXCEPT !.ptrs = <<>>]

(***************************************************************************)
(* The AEADReader.                                                         *)
(***************************************************************************)
\* AEADReader::override_root_id
OverrideRootId(from, to, oid) == IF oid = from THEN to ELSE oid

\* AEADReader::decrypt_decompress on the bytes of one object: the chunk, or
\* a panic when the tag does not authenticate what is stored there
DecryptChunk(obj, ptr) ==
    IF \E i \in DOMAIN obj.chunks :
          obj.chunks[i].offs = ptr.offs /\ obj.chunks[i].data = ptr.tag
    THEN [st |-> "ok", data |-> ptr.tag]
    ELSE [st |-> "panic", data |-> <<>>]

\* AEADReader::read_chunk: Err when the backend does not have the object
ReadChunk(be, pointer, from, to) ==
    The({ (LET oid == OverrideRootId(from, to, ptr.object)
           IN  IF oid \notin DOMAIN be THEN [st |-> "err", data |-> <<>>]
               ELSE DecryptChunk(be[oid], ptr))
          : ptr \in {pointer} })

\* BufferedStream / DeserializeStream: the records of the chunks of a
\* stream up to the first chunk that cannot be read
RECURSIVE ReadStream(_, _, _, _)
ReadStream(be, pointers, from, to) ==
    The({ (IF stream = <<>> THEN [st |-> "ok", data |-> <<>>]
           ELSE The({ (IF c.st # "ok" THEN c
                       ELSE The({ [st |-> rest.st, data |-> c.data \o rest.data]
                                  : rest \in {ReadStream(be, Tail(stream),
                                                         from, to)} }))
                      : c \in {ReadChunk(be, Head(stream), from, to)} }))
          : stream \in {pointers} })

(***************************************************************************)
(* Commits, the commit filter and the sealed root.                         *)
(***************************************************************************)
\* Option<T>: None is <<>>, Some(x) is <<x>>
NoId == <<>>

\* secure_hash of the serialized metadata followed by the serialized list
\* of (field, Stream): the id stands for what was hashed
CommitHash(metadata, changeset) == <<metadata, changeset>>

\* a metadata whose previous is the first commit of the list
CommitMetadataFirst(clist) ==
    [previous |-> IF clist = <<>> THEN NoId ELSE <<clist[1].id>>,
     message  |-> None]

\* Infinitree::commit: previous is the id of the last commit in the list
CommitMetadata(clist) ==
    [previous |-> IF clist = <<>> THEN NoId ELSE <<clist[Len(clist)].id>>,
     message  |-> None]

\* IndexExt::store for every Intent of store_all: the field's records go
\* through the sink and BufferedSink::clear returns the field's Stream; the
\* writer under the sink is not flushed
RECURSIVE StoreAll(_, _, _)
StoreAll(st, fields, fail) ==
    IF fields = <<>> THEN [st |-> st, log |-> <<>>]
    ELSE The({ The({ [st  |-> rest.st,
                      log |-> <<[field  |-> Head(fields).field,
                                 stream |-> s1.ptrs]>> \o rest.log]
                    : rest \in {StoreAll(s1, Tail(fields), fail)} })
               : s1 \in {SinkStream(NextStream(st), Head(fields).recs,
                                    fail)} })

\* IndexExt::commit: (commit id, [(field, Stream)])
IndexCommit(st, fields, hashed_data, fail) ==
    The({ [st |-> r.st, id |-> CommitHash(hashed_data, r.log),
           changeset |-> r.log]
          : r \in {StoreAll(st, fields, fail)} })

\* Infinitree::last_commit
LastCommit(clist) == IF clist = <<>> THEN <<>> ELSE <<clist[Len(clist)]>>

\* CommitFilter
FilterAll == [kind |-> "All", a |-> NoId, b |-> NoId]
FilterSingle(id) == [kind |-> "Single", a |-> id, b |-> NoId]
FilterUpTo(id) == [kind |-> "UpTo", a |-> id, b |-> NoId]
FilterRange(start, end) == [kind |-> "Range", a |-> start, b |-> end]

\* a lookup that answers with the last commit whatever the id
CommitsGetLast(clist, id) == LastCommit(clist)

\* commits.get(id) on the HashMap collected from the commit list
CommitsGet(clist, id) ==
    LET at == {i \in DOMAIN clist : clist[i].id = id}
    IN  IF at = {} THEN <<>>
        ELSE <<clist[CHOOSE i \in at : \A j \in at : j <= i]>>

\* a walk that starts from the last commit whatever the filter
WalkStartLast(clist, f) == LastCommit(clist)

\* the commit the walk of apply_commit_filter starts from
WalkStart(clist, f) ==
    CASE f.kind = "All"   -> LastCommit(clist)
      [] f.kind = "UpTo"  -> CommitsGet(clist, f.a)
      [] f.kind = "Range" -> CommitsGet(clist, f.b)
      [] OTHER            -> <<>>

\* the loop of apply_commit_filter
RECURSIVE Walk(_, _, _)
Walk(clist, f, start) ==
    The({ (IF next = <<>> THEN <<>>
           ELSE LET cur == next[1]
                IN  <<cur.id>> \o
                    (IF f.kind = "Range" /\ cur.id = f.a THEN <<>>
                     ELSE Walk(clist, f,
                               IF cur.metadata.previous = NoId THEN <<>>
                               ELSE CommitsGet(clist,
                                               cur.metadata.previous[1]))))
          : next \in {start} })

\* Infinitree::apply_commit_filter: Option<Vec<CommitId>>
ApplyCommitFilter(clist, f) ==
    IF f.kind = "Single"
    THEN The({ (IF c = <<>> THEN [some |-> FALSE, list |-> <<>>]
                ELSE [some |-> TRUE, list |-> <<c[1].id>>])
               : c \in {CommitsGet(clist, f.a)} })
    ELSE [some |-> TRUE, list |-> Walk(clist, f, WalkStart(clist, f))]

\* Infinitree::filter_generations
FilterGenerations(tlog, clist, f) ==
    The({ (IF ~allowed.some THEN <<>>
           ELSE SelectSeq(tlog,
                    LAMBDA e : \E i \in DOMAIN allowed.list :
                                  allowed.list[i] = e.id))
          : allowed \in {ApplyCommitFilter(clist, f)} })

\* the entries of a transaction list for one field
ForField(tlist, field) == SelectSeq(tlist, LAMBDA e : e.field = field)

\* Serialized<T>::load: the first stream of the field, read in full; the
\* field keeps its default when the list has no entry for it
LoadSerialized(be, tlist, field, from, to) ==
    The({ (IF mine = <<>> THEN [st |-> "ok", data |-> <<>>]
           ELSE The({ (IF r.st = "ok" THEN r
                       ELSE [st |-> "panic", data |-> <<>>])
                      : r \in {ReadStream(be, mine[1].stream, from, to)} }))
          : mine \in {ForField(tlist, field)} })

\* the worse of two outcomes
Worst(a, b) ==
    IF a = "panic" \/ b = "panic" THEN "panic"
    ELSE IF a = "err" \/ b = "err" THEN "err" ELSE "ok"

\* sealed_root::open with parse_transactions_stream
OpenRoot(be) ==
    LET bad(st) == [st |-> st, transaction_log |-> <<>>, commit_list |-> <<>>,
                    objects |-> {}, shadow_root |-> ROOT]
    IN  IF ROOT \notin DOMAIN be THEN bad("err")
        ELSE IF be[ROOT].head = RandomHead THEN bad("panic")
        ELSE
          LET root_pointer == be[ROOT].head[1]
              shadow == root_pointer.object
          IN  The({
                (IF buf.st # "ok" THEN bad(buf.st)
                 ELSE The({
                   (IF tlist.st # "ok" THEN bad(tlist.st)
                    ELSE The({
                      (IF Worst(tl.st, cl.st) # "ok"
                       THEN bad(Worst(tl.st, cl.st))
                       ELSE [st |-> "ok",
                             transaction_log |-> tl.data,
                             commit_list |-> cl.data,
                             objects |-> StreamObjects(buf.data),
                             shadow_root |-> shadow])
                      : tl \in {LoadSerialized(be, tlist.data,
                                     "transaction_log", shadow, ROOT)},
                        cl \in {LoadSerialized(be, tlist.data,
                                     "commit_list", shadow, ROOT)} }))
                   : tlist \in {ReadStream(be, buf.data, shadow, ROOT)} }))
                : buf \in {DecryptChunk(be[ROOT], root_pointer)} })

\* Query::select over Incremental depth: the records of every stream, newest
\* commit first; a stream ends at its first chunk that cannot be read, a
\* chunk that does not authenticate panics
RECURSIVE SelectRecords(_, _)
SelectRecords(be, transactions) ==
    The({ (IF tlist = <<>> THEN [st |-> "ok", data |-> <<>>]
           ELSE The({ (IF r.st = "panic" THEN [st |-> "panic", data |-> <<>>]
                       ELSE The({ [st |-> rest.st, data |-> r.data \o rest.data]
                                  : rest \in {SelectRecords(be, Tail(tlist))} }))
                      : r \in {ReadStream(be, Head(tlist).stream, ROOT, ROOT)} }))
          : tlist \in {transactions} })

\* Collection::insert for every record: base.insert keeps an existing entry
RECURSIVE InsertAll(_, _)
InsertAll(map, records) ==
    The({ (IF recs = <<>> THEN b
           ELSE LET k == Head(recs)[1]
                IN  InsertAll(IF k \in DOMAIN b THEN b
                              ELSE MapPut(b, k, Head(recs)[2]),
                              Tail(recs)))
          : b \in {map}, recs \in {records} })

\* Store::store of a VersionedMap: a record for every entry of current
RECURSIVE StoreRecords(_, _)
StoreRecords(c, keys) ==
    The({ (IF ks = {} THEN <<>>
           ELSE LET k == CHOOSE x \in ks : \A y \in ks : x <= y
                IN  <<<<k, c[k]>>>> \o StoreRecords(c, ks \ {k}))
          : ks \in {keys} })

\* what get() returns for every key
View(b, c) == [k \in Keys |-> Get(b, c, k)]

\* the objects of the root tier alone
RootTierObjects(root_objects, transactions, shadow) == root_objects \ {shadow}

\* RootIndex::objects: the objects of the root tier and of the streams of
\* the transaction log, without shadow_root
RootIndexObjects(root_objects, transactions, shadow) ==
    (root_objects
       \cup UNION {StreamObjects(transactions[i].stream) :
                     i \in DOMAIN transactions})
    \ {shadow}

(***************************************************************************)
(* VersionedMap, operations.                                               *)
(***************************************************************************)
HistPut(h, k, v) == [h EXCEPT ![k] = v]

VInsert(k, v) ==
    /\ pc = "idle"
    /\ current' = InsertWith(base, current, k, v)
    /\ lastOp' = "insert"
    /\ hist' = IF hist[k] = None THEN HistPut(hist, k, v) ELSE hist
    /\ UNCHANGED <<base, histBase>>
    /\ UNCHANGED treeVars
    /\ UNCHANGED extVars

VUpdateWith(k, v) ==
    /\ pc = "idle"
    /\ current' = UpdateWith(base, current, k, v)
    /\ lastOp' = "update_with"
    /\ hist' = IF hist[k] # None THEN HistPut(hist, k, v) ELSE hist
    /\ UNCHANGED <<base, histBase>>
    /\ UNCHANGED treeVars
    /\ UNCHANGED extVars

VRemove(k) ==
    /\ pc = "idle"
    /\ current' = Remove(base, current, k)
    /\ lastOp' = "remove"
    /\ hist' = HistPut(hist, k, None)
    /\ UNCHANGED <<base, histBase>>
    /\ UNCHANGED treeVars
    /\ UNCHANGED extVars

VCommit ==
    /\ pc = "idle"
    /\ base' = CommitFold(base, current)
    /\ current' = EmptyMap
    /\ lastOp' = "commit"
    /\ histBase' = hist
    /\ UNCHANGED hist
    /\ UNCHANGED treeVars
    /\ UNCHANGED extVars

VRollback ==
    /\ pc = "idle"
    /\ current' = EmptyMap
    /\ lastOp' = "rollback"
    /\ hist' = histBase
    /\ UNCHANGED <<base, histBase>>
    /\ UNCHANGED treeVars
    /\ UNCHANGED extVars

(***************************************************************************)
(* Infinitree, operations.                                                 *)
(*                                                                         *)
(* A commit is taken in steps so that every backend write has its own      *)
(* outcome: CommitStore, CommitRecord, SealStage, SealHead and DropWriters.*)
(* The client makes no other call while a commit is in flight.             *)
(***************************************************************************)
NoPending ==
    [mode |-> "Always", id |-> NoId, metadata |-> CommitMetadata(<<>>),
     changeset |-> <<>>, err |-> FALSE, panic |-> FALSE, head |-> RandomHead]

\* `stored` is what load_all reads from the backend, `view` and `len` what
\* get() and len() return in memory, `direct` whether the index in memory
\* was built by this process alone
NoSealed == [some |-> FALSE, commit_list |-> <<>>,
             stored |-> [k \in Keys |-> None],
             view |-> [k \in Keys |-> None], len |-> 0, direct |-> TRUE]

\* what get() returns after load_all into an empty index
LoadedView(be, tlog, clist, f) ==
    View(InsertAll(EmptyMap,
            SelectRecords(be, ForField(FilterGenerations(tlog, clist, f),
                                       "root")).data),
         EmptyMap)

NoHist == [k \in Keys |-> None]

\* a test that never finds the commit empty
IsNoopNever(mode, changeset) == FALSE

\* the test of commit_with_metadata for a commit that changes nothing
IsNoop(mode, changeset) ==
    /\ mode = "OnlyOnChange"
    /\ \A i \in DOMAIN changeset : changeset[i].stream = <<>>

\* commit_with_metadata up to the early return: the index is stored into the
\* sink, its delta folded, and the commit id computed
CommitStore(mode, fail) ==
    /\ pc = "idle"
    /\ UNCHANGED extVars
    /\ Len(commit_list) < MaxCommits
    /\ nextOid <= MaxOid
    /\ \E stored \in
          {IndexCommit(WriterState(DataWriter(nextOid), backend, nextOid + 1,
                                   <<>>),
                       <<[field |-> "root",
                          recs |-> StoreRecords(current, DOMAIN current)]>>,
                       CommitMetadata(commit_list), fail)} :
       LET metadata  == CommitMetadata(commit_list)
           s1        == stored.st
           changeset == stored.changeset
           id        == stored.id
       IN  /\ base' = CommitFold(base, current)
           /\ current' = EmptyMap
           /\ histBase' = hist
           /\ lastOp' = "tree_commit"
           /\ issued' = s1.log
           /\ backend' = s1.be
           /\ faults' = faults + s1.faults
           /\ faults' <= MaxFaults
           /\ IF IsNoop(mode, changeset) /\ ~s1.err
              THEN /\ pc' = "idle"
                   /\ status' = "ok"
                   /\ cret' = LastCommit(commit_list)
                   /\ sink' = NoWriter
                   /\ pending' = [NoPending EXCEPT !.mode = mode]
                   /\ sealed' = IF sealed.some
                                THEN [sealed EXCEPT
                                        !.view = View(base', current'),
                                        !.len = VLen(base', current'),
                                        !.direct = @ /\ ~reopened]
                                ELSE sealed
                   /\ UNCHANGED nextOid
              ELSE /\ pc' = IF s1.err THEN "dropping" ELSE "stored"
                   /\ sink' = s1.w
                   /\ nextOid' = IF s1.w.pos = 0 /\ s1.log = <<>>
                                 THEN nextOid ELSE s1.next
                   /\ pending' = [mode |-> mode, id |-> id,
                                  metadata |-> metadata,
                                  changeset |-> changeset, err |-> FALSE,
                                  panic |-> s1.err, head |-> RandomHead]
                   /\ UNCHANGED <<status, cret, sealed>>
    /\ UNCHANGED <<hist, transaction_log, commit_list, objects,
                   shadow_root, commit_filter, writer, failed, reopened>>

\* the scope of commit_with_metadata that holds the write lock of the log
CommitRecord ==
    /\ pc = "stored"
    /\ UNCHANGED extVars
    /\ transaction_log' =
          [i \in DOMAIN pending.changeset |->
              [id |-> pending.id, field |-> pending.changeset[i].field,
               stream |-> pending.changeset[i].stream]] \o transaction_log
    /\ commit_list' = Append(commit_list,
                             [id |-> pending.id, metadata |-> pending.metadata])
    /\ pc' = "recorded"
    /\ UNCHANGED <<base, current, lastOp, hist, histBase, status, cret,
                   backend, nextOid, faults, objects, shadow_root,
                   commit_filter,
                   sink, writer, pending, issued, sealed, failed, reopened>>

\* the orders in which a HashSet of ObjectIds can be drained into a Vec
Orders(S) ==
    {f \in [1..Cardinality(S) -> S] : \A x \in S : \E i \in DOMAIN f : f[i] = x}

\* sealed_root::commit up to the write of the stream descriptor: the root
\* writer is seeded with the objects of the previous root tier, the fields
\* of the RootIndex and the list of their streams go through one sink
SealStage(fail) ==
    /\ pc = "recorded"
    /\ UNCHANGED extVars
    /\ \E order \in Orders(objects) :
       \E stored \in
          {IndexCommit(WriterState(RootWriter(order, nextOid), backend,
                                   IF Len(order) = 0 THEN nextOid + 1
                                   ELSE nextOid, issued),
                       <<[field |-> "transaction_log",
                          recs |-> transaction_log],
                         [field |-> "commit_list", recs |-> commit_list]>>,
                       <<>>, fail)} :
       \E s3 \in
          {SinkStream(NextStream(stored.st),
                      [i \in DOMAIN stored.changeset |->
                          [id |-> stored.id,
                           field |-> stored.changeset[i].field,
                           stream |-> stored.changeset[i].stream]],
                      fail)} :
       \E s4 \in {WriteChunk(NextStream(s3), s3.ptrs, fail)} :
       LET stream == s3.ptrs
       IN  /\ objects' = IF s3.err THEN {} ELSE StreamObjects(stream)
           /\ shadow_root' = IF s4.err THEN shadow_root ELSE s4.ptrs[1].object
           /\ writer' = s4.w
           /\ backend' = s4.be
           /\ nextOid' = s4.next
           /\ faults' = faults + s4.faults
           /\ faults' <= MaxFaults
           /\ issued' = s4.log
           /\ pending' = [pending EXCEPT
                            !.err = s4.err,
                            !.head = IF s4.err THEN RandomHead
                                     ELSE <<s4.ptrs[1]>>]
           /\ pc' = IF s4.err THEN "dropping" ELSE "staged"
    /\ UNCHANGED <<base, current, lastOp, hist, histBase, status, cret,
                   transaction_log, commit_list, commit_filter, sink, sealed,
                   failed, reopened>>

\* AEADWriter::flush_root_head: the object takes the root id and the sealed
\* header and is handed to the backend; on failure the writer keeps both
SealHead(fail) ==
    /\ pc = "staged"
    /\ UNCHANGED extVars
    /\ IF fail
       THEN /\ faults < MaxFaults
            /\ faults' = faults + 1
            /\ writer' = [writer EXCEPT !.id = ROOT]
            /\ pending' = [pending EXCEPT !.err = TRUE]
            /\ UNCHANGED <<backend, issued>>
       ELSE /\ backend' = MapPut(backend, ROOT,
                            [head |-> pending.head, chunks |-> writer.chunks])
            /\ issued' = Append(issued, Issued(ROOT, pending.head))
            /\ writer' = NoWriter
            /\ UNCHANGED <<pending, faults>>
    /\ pc' = "dropping"
    /\ UNCHANGED <<base, current, lastOp, hist, histBase, status, cret,
                   nextOid, transaction_log, commit_list, objects, shadow_root,
                   commit_filter, sink, sealed, failed, reopened>>

\* the process is gone: nothing of the tree is left in memory
LoseMemory ==
    /\ base' = EmptyMap
    /\ current' = EmptyMap
    /\ cret' = <<>>
    /\ hist' = NoHist
    /\ histBase' = NoHist
    /\ transaction_log' = <<>>
    /\ commit_list' = <<>>
    /\ objects' = {}
    /\ shadow_root' = ROOT
    /\ commit_filter' = FilterAll

\* the return of sealed_root::commit and of commit_with_metadata: Drop for
\* AEADWriter flushes the root writer, then the writer under the sink, when
\* they hold chunks, and panics when the flush fails
DropWriters(failRoot, failSink) ==
    /\ pc = "dropping"
    /\ UNCHANGED extVars
    /\ \E r \in {IF writer.pos > 0
                  THEN Flush(WriterState(writer, backend, nextOid, issued),
                             failRoot)
                  ELSE WriterState(writer, backend, nextOid, issued)} :
       \E s \in {IF sink.pos > 0
                  THEN Flush([WriterState(sink, r.be, nextOid, r.log) EXCEPT
                                !.faults = r.faults], failSink)
                  ELSE [WriterState(sink, r.be, nextOid, r.log) EXCEPT
                          !.faults = r.faults]} :
       LET panic == pending.panic \/ r.err \/ s.err
       IN  /\ backend' = s.be
           /\ issued' = s.log
           /\ faults' = faults + s.faults
           /\ faults' <= MaxFaults
           /\ IF panic
              THEN /\ pc' = "crashed"
                   /\ status' = "panic"
                   /\ failed' = TRUE
                   /\ LoseMemory
                   /\ UNCHANGED sealed
              ELSE /\ pc' = "idle"
                   /\ status' = IF pending.err THEN "err" ELSE "ok"
                   /\ cret' = IF pending.err THEN <<>>
                              ELSE LastCommit(commit_list)
                   /\ failed' = pending.err
                   /\ sealed' = IF pending.err THEN sealed
                                ELSE [some |-> TRUE,
                                      commit_list |-> commit_list,
                                      stored |-> LoadedView(s.be,
                                                    transaction_log,
                                                    commit_list, FilterAll),
                                      view |-> View(base, current),
                                      len |-> VLen(base, current),
                                      direct |-> ~reopened]
                   /\ UNCHANGED <<base, current, hist, histBase,
                                  transaction_log, commit_list, objects,
                                  shadow_root, commit_filter>>
    /\ writer' = NoWriter
    /\ sink' = NoWriter
    /\ pending' = NoPending
    /\ UNCHANGED <<lastOp, nextOid, reopened>>

\* Infinitree::open: the RootIndex is read from the backend, the index is
\* I::default(), the filter is CommitFilter::default()
Open ==
    /\ pc \in {"idle", "crashed", "closed"}
    /\ UNCHANGED extVars
    /\ \E r \in {OpenRoot(backend)} :
           /\ status' = r.st
           /\ pc' = IF r.st = "ok" THEN "idle" ELSE "closed"
           /\ transaction_log' = r.transaction_log
           /\ commit_list' = r.commit_list
           /\ objects' = r.objects
           /\ shadow_root' = r.shadow_root
    /\ base' = EmptyMap
    /\ current' = EmptyMap
    /\ commit_filter' = FilterAll
    /\ lastOp' = "open"
    /\ cret' = <<>>
    /\ hist' = NoHist
    /\ histBase' = NoHist
    /\ pending' = NoPending
    /\ issued' = <<>>
    /\ reopened' = TRUE
    /\ UNCHANGED <<backend, nextOid, faults, sink, writer, sealed, failed>>

\* Infinitree::load_all: the field "root" of the index is loaded from the
\* filtered transaction list
LoadAll ==
    /\ pc = "idle"
    /\ UNCHANGED extVars
    /\ \E r \in {SelectRecords(backend,
                    ForField(FilterGenerations(transaction_log, commit_list,
                                               commit_filter), "root"))} :
           IF r.st = "panic"
           THEN /\ pc' = "crashed"
                /\ status' = "panic"
                /\ LoseMemory
           ELSE /\ base' = InsertAll(base, r.data)
                /\ hist' = View(base', current)
                /\ histBase' = View(base', EmptyMap)
                /\ status' = "ok"
                /\ UNCHANGED <<current, cret, transaction_log, commit_list,
                               objects, shadow_root, commit_filter, pc>>
    /\ lastOp' = IF lastOp = "open" THEN "open_load_all" ELSE "load_all"
    /\ UNCHANGED <<backend, nextOid, faults, sink, writer, pending, issued,
                   sealed, failed, reopened>>

\* Infinitree::filter_commits
FilterCommits(f) ==
    /\ pc = "idle"
    /\ UNCHANGED extVars
    /\ commit_filter' = f
    /\ lastOp' = "filter_commits"
    /\ UNCHANGED <<base, current, hist, histBase, status, cret, backend,
                   nextOid, faults, transaction_log, commit_list, objects, shadow_root,
                   pc, sink, writer, pending, issued, sealed, failed, reopened>>

(***************************************************************************)
(* Index fields, depth and queries.                                        *)
(*                                                                         *)
(* An index of one field "root" of some collection type. A commit appends  *)
(* the stream that Store::store writes for the field to the head of the    *)
(* field's transaction list; a load, a query or an iteration reads a       *)
(* range of that list into a collection of the same type that starts out   *)
(* empty. The items of the lists are drawn from Keys, as a list's key is   *)
(* the item itself.                                                        *)
(***************************************************************************)
Kinds == {"VersionedMap", "LinkedList", "Map", "List", "Serialized"}

\* QueryAction
QueryAction == {"Take", "Skip", "Abort"}

\* Collection::Depth of every collection type
DepthOf(kd) ==
    IF kd \in {"VersionedMap", "LinkedList"} THEN "Incremental" ELSE "Snapshot"

\* the value of a Serialized<T> that was never written
SerializedDefault == None

\* the Default of every collection type
NewField(kd) ==
    CASE kd = "VersionedMap" -> [base |-> EmptyMap, current |-> EmptyMap]
      [] kd = "LinkedList"   -> [items |-> <<>>, commit_start |-> 0,
                                 previous_commit_last |-> 0]
      [] kd = "Map"          -> EmptyMap
      [] kd = "List"         -> <<>>
      [] kd = "Serialized"   -> SerializedDefault

\* LinkedList::push: the node follows `last`; commit_start takes the node
\* when it is null (0)
Push(l, t) ==
    [items |-> Append(l.items, t),
     commit_start |-> IF l.commit_start = 0 THEN Len(l.items) + 1
                      ELSE l.commit_start,
     previous_commit_last |-> l.previous_commit_last]

\* LinkedList::commit
ListCommit(l) ==
    [items |-> l.items, commit_start |-> 0,
     previous_commit_last |-> Len(l.items)]

\* LinkedList::iter: every node from `first`
ListIter(l) == l.items

\* Map::insert: a key that has a value keeps it
MapInsert(m, k, v) == IF k \in DOMAIN m THEN m ELSE MapPut(m, k, v)

\* the entries of a hash map in the order an iteration visits the keys
EntriesIn(m, order) == [i \in DOMAIN order |-> <<order[i], m[order[i]]>>]

\* Store::store: the records written to the transaction and the collection
\* after the call; `order` is the order in which a hash map is visited
StoreField(kd, f, order) ==
    CASE kd = "VersionedMap" ->
            [records |-> EntriesIn(f.current, order),
             field   |-> [base    |-> CommitFold(f.base, f.current),
                          current |-> EmptyMap]]
      [] kd = "LinkedList" ->
            [records |-> ListIter(f), field |-> ListCommit(f)]
      [] kd = "Map" ->
            [records |-> EntriesIn(f, order), field |-> f]
      [] kd = "List" ->
            [records |-> f, field |-> f]
      [] kd = "Serialized" ->
            [records |-> <<f>>, field |-> f]

\* the keys a store visits
StoredKeys(kd, f) ==
    CASE kd = "VersionedMap" -> DOMAIN f.current
      [] kd = "Map"          -> DOMAIN f
      [] OTHER               -> {}

\* Collection::key
KeyOf(kd, rec) == IF kd \in {"VersionedMap", "Map"} THEN rec[1] ELSE rec

\* Collection::insert
CollectionInsert(kd, f, rec) ==
    CASE kd = "VersionedMap" ->
            [base    |-> MapInsert(f.base, rec[1], rec[2]),
             current |-> f.current]
      [] kd = "LinkedList" -> Push(f, rec)
      [] kd = "Map"  -> MapInsert(f, rec[1], rec[2])
      [] kd = "List" -> Append(f, rec)

\* what a collection holds, as its readers see it
Content(kd, f) ==
    CASE kd = "VersionedMap" -> View(f.base, f.current)
      [] kd = "LinkedList"   -> ListIter(f)
      [] OTHER               -> f

\* full_history: a stream for every transaction, in the order of the list
full_history(transactions) == transactions

\* a Snapshot depth that walks the whole history
ResolveFull(depth, transactions) == full_history(transactions)

\* Incremental::resolve and Snapshot::resolve
Resolve(depth, transactions) ==
    IF depth = "Incremental" THEN full_history(transactions)
    ELSE SubSeq(full_history(transactions), 1, Min(1, Len(transactions)))

\* the for loop of Query::select over one QueryIterator: the collection
\* after the inserts and the records that read_next returned
RECURSIVE QueryStream(_, _, _, _, _)
QueryStream(kd, into, stream, predicate, sofar) ==
    The({ (IF s = <<>> THEN [field |-> f, read |-> rd]
           ELSE The({ (CASE act = "Take" ->
                               QueryStream(kd, CollectionInsert(kd, f, Head(s)),
                                           Tail(s), predicate,
                                           Append(rd, Head(s)))
                         [] act = "Skip" ->
                               QueryStream(kd, f, Tail(s), predicate,
                                           Append(rd, Head(s)))
                         [] act = "Abort" ->
                               [field |-> f, read |-> Append(rd, Head(s))])
                      : act \in {predicate[KeyOf(kd, Head(s))]} }))
          : f \in {into}, s \in {stream}, rd \in {sofar} })

\* Query::select: a QueryIterator for every stream the depth resolves
RECURSIVE SelectStreams(_, _, _, _, _)
SelectStreams(kd, into, transactions, predicate, sofar) ==
    The({ (IF ts = <<>> THEN [field |-> f, read |-> rd]
           ELSE The({ SelectStreams(kd, r.field, Tail(ts), predicate, r.read)
                      : r \in {QueryStream(kd, f, Head(ts), predicate, rd)} }))
          : f \in {into}, ts \in {transactions}, rd \in {sofar} })

Select(kd, into, transaction_list, predicate) ==
    SelectStreams(kd, into, Resolve(DepthOf(kd), transaction_list),
                  predicate, <<>>)

\* the predicate of Load::load
TakeAll == [k \in Keys |-> "Take"]

\* Serialized<T>::load: the first record of the first stream
LoadFirstOnly(into, transaction_list) ==
    IF transaction_list = <<>> THEN [field |-> into, read |-> <<>>]
    ELSE [field |-> Head(transaction_list)[1],
          read  |-> <<Head(transaction_list)[1]>>]

\* an iterator that forgets the keys it has yielded
CacheInsertNever(cache, key) == cache

\* KeyCachingIterator: cache.insert
CacheInsert(cache, key) == cache \cup {key}

\* KeyCachingIterator::next, called until it answers None: the items in the
\* order they are yielded
RECURSIVE KeyCachingIterator(_, _, _, _, _)
KeyCachingIterator(kd, stream, transactions, predicate, cache) ==
    The({ (IF cur = <<>>
           THEN IF ts = <<>> THEN <<>>
                ELSE KeyCachingIterator(kd, Head(ts), Tail(ts), predicate, ch)
           ELSE The({ (CASE act = "Take" ->
                               IF key \in ch
                               THEN KeyCachingIterator(kd, Tail(cur), ts,
                                                       predicate, ch)
                               ELSE <<Head(cur)>> \o
                                    KeyCachingIterator(kd, Tail(cur), ts,
                                        predicate, CacheInsert(ch, key))
                         [] act = "Skip" ->
                               KeyCachingIterator(kd, Tail(cur), ts,
                                                  predicate, ch)
                         [] act = "Abort" -> <<>>)
                      : key \in {KeyOf(kd, Head(cur))},
                        act \in {predicate[KeyOf(kd, Head(cur))]} }))
          : cur \in {stream}, ts \in {transactions}, ch \in {cache} })

\* no load has been made since the last write; the client makes one load,
\* query or iteration at a time and looks at what it gave before it writes
NoLoad == [op |-> "none"]

\* Infinitree::empty with a Default field of the type
NewIndex(kd) ==
    /\ kind = kd
    /\ collection = NewField(kd)
    /\ streams = <<>>
    /\ contents = <<>>
    /\ loaded = NoLoad

\* VersionedMap::insert
FieldVInsert(k, v) ==
    /\ kind = "VersionedMap"
    /\ collection' = [collection EXCEPT
                        !.current = InsertWith(collection.base,
                                               collection.current, k, v)]
    /\ loaded' = NoLoad
    /\ UNCHANGED <<kind, streams, contents>>
    /\ UNCHANGED <<vmapVars, treeVars, cacheVars, auxVars>>

\* VersionedMap::remove
FieldVRemove(k) ==
    /\ kind = "VersionedMap"
    /\ collection' = [collection EXCEPT
                        !.current = Remove(collection.base,
                                           collection.current, k)]
    /\ loaded' = NoLoad
    /\ UNCHANGED <<kind, streams, contents>>
    /\ UNCHANGED <<vmapVars, treeVars, cacheVars, auxVars>>

\* LinkedList::push
FieldPush(t) ==
    /\ kind = "LinkedList"
    /\ Len(collection.items) < MaxItems
    /\ collection' = Push(collection, t)
    /\ loaded' = NoLoad
    /\ UNCHANGED <<kind, streams, contents>>
    /\ UNCHANGED <<vmapVars, treeVars, cacheVars, auxVars>>

\* Map::insert
FieldMapInsert(k, v) ==
    /\ kind = "Map"
    /\ collection' = MapInsert(collection, k, v)
    /\ loaded' = NoLoad
    /\ UNCHANGED <<kind, streams, contents>>
    /\ UNCHANGED <<vmapVars, treeVars, cacheVars, auxVars>>

\* Map::remove
FieldMapRemove(k) ==
    /\ kind = "Map"
    /\ collection' = MapDel(collection, k)
    /\ loaded' = NoLoad
    /\ UNCHANGED <<kind, streams, contents>>
    /\ UNCHANGED <<vmapVars, treeVars, cacheVars, auxVars>>

\* List: write().push
FieldVecPush(t) ==
    /\ kind = "List"
    /\ Len(collection) < MaxItems
    /\ collection' = Append(collection, t)
    /\ loaded' = NoLoad
    /\ UNCHANGED <<kind, streams, contents>>
    /\ UNCHANGED <<vmapVars, treeVars, cacheVars, auxVars>>

\* Serialized: *write() = v
FieldWrite(v) ==
    /\ kind = "Serialized"
    /\ collection' = v
    /\ loaded' = NoLoad
    /\ UNCHANGED <<kind, streams, contents>>
    /\ UNCHANGED <<vmapVars, treeVars, cacheVars, auxVars>>

\* IndexExt::commit: the stream of the field heads its transaction list
FieldCommit ==
    /\ Len(streams) < MaxStreams
    /\ \E order \in Orders(StoredKeys(kind, collection)) :
          \E st \in {StoreField(kind, collection, order)} :
             /\ streams' = <<st.records>> \o streams
             /\ collection' = st.field
             /\ contents' = <<Content(kind, st.field)>> \o contents
    /\ loaded' = NoLoad
    /\ UNCHANGED kind
    /\ UNCHANGED <<vmapVars, treeVars, cacheVars, auxVars>>

\* the transaction lists a commit filter can leave: a run of commits
\* from..to of the list, or none of them (1..0)
Ranges == {r \in (1..MaxStreams) \X (0..MaxStreams) :
              /\ r[2] <= Len(streams)
              /\ r[1] <= r[2] \/ r = <<1, 0>>}

\* Infinitree::load into a field that is empty
FieldLoad(from, to) ==
    /\ loaded = NoLoad
    /\ <<from, to>> \in Ranges
    /\ \E r \in {IF kind = "Serialized"
                 THEN LoadFirstOnly(NewField(kind), SubSeq(streams, from, to))
                 ELSE Select(kind, NewField(kind), SubSeq(streams, from, to),
                             TakeAll)} :
          loaded' = [op |-> "load", from |-> from, to |-> to,
                     predicate |-> TakeAll, field |-> r.field,
                     read |-> r.read]
    /\ UNCHANGED <<kind, collection, streams, contents>>
    /\ UNCHANGED <<vmapVars, treeVars, cacheVars, auxVars>>

\* Infinitree::query into a field that is empty
FieldQuery(from, to, predicate) ==
    /\ loaded = NoLoad
    /\ kind # "Serialized"
    /\ <<from, to>> \in Ranges
    /\ \E r \in {Select(kind, NewField(kind), SubSeq(streams, from, to),
                        predicate)} :
          loaded' = [op |-> "query", from |-> from, to |-> to,
                     predicate |-> predicate, field |-> r.field,
                     read |-> r.read]
    /\ UNCHANGED <<kind, collection, streams, contents>>
    /\ UNCHANGED <<vmapVars, treeVars, cacheVars, auxVars>>

\* Infinitree::iter, and the iterator run to its end; no iterator is made
\* of an empty transaction list
FieldIter(from, to, predicate) ==
    /\ loaded = NoLoad
    /\ kind # "Serialized"
    /\ <<from, to>> \in Ranges
    /\ \E ts \in {Resolve(DepthOf(kind), SubSeq(streams, from, to))} :
          loaded' = IF ts = <<>>
                    THEN [op |-> "iter", from |-> from, to |-> to,
                          predicate |-> predicate, some |-> FALSE,
                          yielded |-> <<>>]
                    ELSE [op |-> "iter", from |-> from, to |-> to,
                          predicate |-> predicate, some |-> TRUE,
                          yielded |-> KeyCachingIterator(kind, Head(ts),
                                          Tail(ts), predicate, {})]
    /\ UNCHANGED <<kind, collection, streams, contents>>
    /\ UNCHANGED <<vmapVars, treeVars, cacheVars, auxVars>>

(***************************************************************************)
(* The Cache backend.                                                      *)
(*                                                                         *)
(* An object is the version of its content; version 0 stands for no        *)
(* object. The directory of the cache starts out empty. The upstream       *)
(* backend is shared: another client can write an object there without     *)
(* going through this cache.                                               *)
(***************************************************************************)
\* BLOCK_SIZE, scaled
BLOCK_SIZE == 2

\* the object that is not there
NoObject == 0

\* the fields of a Cache, its Directory and its upstream as one value
CacheState ==
    [file_list |-> file_list, warm |-> warm, files |-> files,
     read_lru |-> read_lru, upstream |-> upstream]

\* LruCache::put: the id becomes the most recently used
LruPut(fl, id) == SelectSeq(fl, LAMBDA x : x # id) \o <<id>>

\* LruCache::pop
LruPop(fl, id) == SelectSeq(fl, LAMBDA x : x # id)

\* LruCache::contains
Tracked(fl, id) == \E i \in DOMAIN fl : fl[i] = id

\* a get that leaves the order of the ids alone
LruGetInPlace(fl, id) == fl

\* LruCache::get: an id of the cache becomes the most recently used
LruGet(fl, id) == IF Tracked(fl, id) THEN LruPut(fl, id) ELSE fl

\* Cache::size
Size(c) == BLOCK_SIZE * (Cardinality(c.warm) + Len(c.file_list))

\* Directory::delete of one id: the handle is dropped, then the file is
\* removed, which fails when there is none
DirectoryDelete(c, id) ==
    IF c.files[id] = NoObject
    THEN [st |-> "err", c |-> [c EXCEPT !.read_lru[id] = NoObject]]
    ELSE [st |-> "ok",
          c  |-> [c EXCEPT !.read_lru[id] = NoObject, !.files[id] = NoObject]]

\* Cache::make_space_for_object
RECURSIVE MakeSpaceForObject(_, _)
MakeSpaceForObject(cache, sofar) ==
    The({ (IF Size(c) > SizeLimit - BLOCK_SIZE
           THEN IF c.file_list = <<>>
                THEN [st |-> "err", c |-> c, evicted |-> ev]
                ELSE The({ (IF d.st = "err"
                            THEN [st |-> "err", c |-> d.c, evicted |-> ev]
                            ELSE MakeSpaceForObject(d.c,
                                     Append(ev, Head(c.file_list))))
                           : d \in {DirectoryDelete(
                                      [c EXCEPT !.file_list = Tail(c.file_list)],
                                      Head(c.file_list))} })
           ELSE [st |-> "ok", c |-> c, evicted |-> ev])
          : c \in {cache}, ev \in {sofar} })

\* an admission that tracks the ids of the warm set as well
AdmitAlways(fl, wm, id) == LruPut(fl, id)

\* Cache::add_new_object, its end: the id enters the LRU unless it is warm
Admit(fl, wm, id) == IF id \in wm THEN fl ELSE LruPut(fl, id)

\* Cache::add_new_object
AddNewObject(cache, id, object) ==
    The({ (IF r.st = "err" THEN r
           ELSE [st |-> "ok",
                 c  |-> [r.c EXCEPT
                           !.files[id] = object,
                           !.file_list = Admit(r.c.file_list, r.c.warm, id)],
                 evicted |-> r.evicted])
          : r \in {MakeSpaceForObject(cache, <<>>)} })

\* Cache::read_upstream
ReadUpstream(cache, id) ==
    IF cache.upstream[id] = NoObject
    THEN [st |-> "err", ret |-> NoObject, c |-> cache, evicted |-> <<>>]
    ELSE The({ [st |-> a.st,
                ret |-> IF a.st = "ok" THEN cache.upstream[id] ELSE NoObject,
                c |-> a.c, evicted |-> a.evicted]
               : a \in {AddNewObject(cache, id, cache.upstream[id])} })

\* Directory::read_object: a handle of read_lru is answered without a look
\* at the file; it is a copy of the file as it was read, or with the
\* feature "mmap" a mapping of the file
DirectoryRead(c, id, mapped) ==
    IF c.read_lru[id] # NoObject
    THEN [st |-> "ok", c |-> c,
          ret |-> IF mapped THEN c.files[id] ELSE c.read_lru[id]]
    ELSE IF c.files[id] = NoObject
    THEN [st |-> "err", ret |-> NoObject, c |-> c]
    ELSE [st |-> "ok", ret |-> c.files[id],
          c |-> [c EXCEPT !.read_lru[id] = c.files[id]]]

\* Cache::read_cache_or_upstream
ReadCacheOrUpstream(cache, id, mapped) ==
    The({ (IF Tracked(cache.file_list, id) \/ id \in cache.warm
           THEN The({ (IF d.st = "ok"
                       THEN [st |-> "ok", ret |-> d.ret, c |-> d.c,
                             evicted |-> <<>>]
                       ELSE ReadUpstream(c, id))
                      : d \in {DirectoryRead(c, id, mapped)} })
           ELSE ReadUpstream(c, id))
          : c \in {[cache EXCEPT !.file_list = LruGet(cache.file_list, id)]} })

\* Cache::keep_warm, the loop over the ids from the i-th on; an id that is
\* in the warm set already fails the insert and the expect panics
RECURSIVE KeepWarmLoop(_, _, _)
KeepWarmLoop(cache, ids, from) ==
    The({ (IF i > Len(ids) THEN [st |-> "ok", c |-> c]
           ELSE IF ids[i] \in c.warm
           THEN [st |-> "panic",
                 c  |-> [c EXCEPT !.file_list = LruPop(c.file_list, ids[i])]]
           ELSE KeepWarmLoop([c EXCEPT
                                !.file_list = LruPop(c.file_list, ids[i]),
                                !.warm = c.warm \cup {ids[i]}],
                             ids, i + 1))
          : c \in {cache}, i \in {from} })

\* Cache::keep_warm
KeepWarm(cache, ids) ==
    IF Len(ids) * BLOCK_SIZE > SizeLimit
    THEN [st |-> "err", c |-> cache]
    ELSE KeepWarmLoop([cache EXCEPT !.warm = {}], ids, 1)

\* the ids of a sequence
Range(s) == {s[i] : i \in DOMAIN s}

\* the order of last use of the ids that have a local file, after a call
\* on id that returned st
Touch(u, id, st, c) ==
    SelectSeq(IF st = "ok" THEN SelectSeq(u, LAMBDA x : x # id) \o <<id>>
              ELSE u,
              LAMBDA x : c.files[x] # NoObject)

\* no call is being looked at: the client calls the cache, looks at what
\* the call gave and then goes on
NoCall == [op |-> "none", id |-> 0, st |-> "ok", ret |-> NoObject,
           evicted |-> <<>>]

\* no keep_warm and no write_object is in progress
Idle == [pc |-> "idle"]

\* Cache::new over an empty directory
NewCache ==
    /\ upstream = [id \in ObjIds |-> NoObject]
    /\ files = [id \in ObjIds |-> NoObject]
    /\ read_lru = [id \in ObjIds |-> NoObject]
    /\ file_list = <<>>
    /\ warm = {}
    /\ used = <<>>
    /\ kept = {}
    /\ out = NoCall
    /\ kw = Idle
    /\ wr = Idle

\* the fields take the values of a cache state
Becomes(c) ==
    /\ file_list' = c.file_list
    /\ warm' = c.warm
    /\ files' = c.files
    /\ read_lru' = c.read_lru
    /\ upstream' = c.upstream

\* a client of the upstream backend that does not go through this cache
\* writes an object
UpstreamWrite(id, object) ==
    /\ kw = Idle /\ wr = Idle
    /\ out = NoCall
    /\ upstream' = [upstream EXCEPT ![id] = object]
    /\ out' = [op |-> "upstream", id |-> id, st |-> "ok", ret |-> NoObject,
               evicted |-> <<>>]
    /\ UNCHANGED <<files, read_lru, file_list, warm, mmap, used, kept, kw, wr>>
    /\ UNCHANGED <<vmapVars, treeVars, queryVars, auxVars>>

\* Cache::write_object
CacheWriteObject(id, object) ==
    /\ kw = Idle /\ wr = Idle
    /\ out = NoCall
    /\ \E r \in {AddNewObject([CacheState EXCEPT !.upstream[id] = object],
                              id, object)} :
          /\ Becomes(r.c)
          /\ used' = Touch(used, id, r.st, r.c)
          /\ out' = [op |-> "write_object", id |-> id, st |-> r.st,
                     ret |-> NoObject, evicted |-> r.evicted]
    /\ UNCHANGED <<mmap, kept, kw, wr>>
    /\ UNCHANGED <<vmapVars, treeVars, queryVars, auxVars>>

\* Cache::read_object
CacheReadObject(id) ==
    /\ kw = Idle /\ wr = Idle
    /\ out = NoCall
    /\ \E r \in {ReadCacheOrUpstream(CacheState, id, mmap)} :
          /\ Becomes(r.c)
          /\ used' = Touch(used, id, r.st, r.c)
          /\ out' = [op |-> "read_object", id |-> id, st |-> r.st,
                     ret |-> r.ret, evicted |-> r.evicted]
    /\ UNCHANGED <<mmap, kept, kw, wr>>
    /\ UNCHANGED <<vmapVars, treeVars, queryVars, auxVars>>

\* Cache::read_fresh
CacheReadFresh(id) ==
    /\ kw = Idle /\ wr = Idle
    /\ out = NoCall
    /\ \E r \in {ReadUpstream(CacheState, id)} :
          /\ Becomes(r.c)
          /\ used' = Touch(used, id, r.st, r.c)
          /\ out' = [op |-> "read_fresh", id |-> id, st |-> r.st,
                     ret |-> r.ret, evicted |-> r.evicted]
    /\ UNCHANGED <<mmap, kept, kw, wr>>
    /\ UNCHANGED <<vmapVars, treeVars, queryVars, auxVars>>

\* Cache::keep_warm
CacheKeepWarm(ids) ==
    /\ kw = Idle /\ wr = Idle
    /\ out = NoCall
    /\ \E r \in {KeepWarm(CacheState, ids)} :
          /\ Becomes(r.c)
          /\ kept' = CASE r.st = "ok"    -> Range(ids)
                       [] r.st = "err"   -> kept
                       [] r.st = "panic" -> {}
          /\ out' = [op |-> "keep_warm", id |-> 0, st |-> r.st,
                     ret |-> NoObject, evicted |-> <<>>]
    /\ UNCHANGED <<mmap, used, kw, wr>>
    /\ UNCHANGED <<vmapVars, treeVars, queryVars, auxVars>>

\* the client has looked at the result of its call
CacheReturn ==
    /\ kw = Idle /\ wr = Idle
    /\ out # NoCall
    /\ out' = NoCall
    /\ UNCHANGED <<upstream, files, read_lru, file_list, warm, mmap, used,
                   kept, kw, wr>>
    /\ UNCHANGED <<vmapVars, treeVars, queryVars, auxVars>>

(***************************************************************************)
(* Two threads on one Cache: one runs keep_warm, the other write_object.   *)
(* warm is a concurrent set that is read and written without a lock;       *)
(* file_list is behind a lock, which keep_warm holds over its whole loop   *)
(* and the other functions take for one access at a time. kw and wr hold   *)
(* the position of the two threads and what they have in their locals.     *)
(***************************************************************************)
\* the lock of file_list is free
LockFree == kw.pc # "loop"

\* Cache::keep_warm is called: the check of the length
KwStart(ids) ==
    /\ kw = Idle
    /\ kw' = IF Len(ids) * BLOCK_SIZE > SizeLimit
             THEN [pc |-> "done", st |-> "err", ids |-> ids, i |-> 1,
                   old |-> warm]
             ELSE [pc |-> "clear", st |-> "ok", ids |-> ids, i |-> 1,
                   old |-> warm]
    /\ UNCHANGED <<upstream, files, read_lru, file_list, warm, mmap, used,
                   kept, out, wr>>
    /\ UNCHANGED <<vmapVars, treeVars, queryVars, auxVars>>

\* Cache::keep_warm: warm.clear_async()
KwClear ==
    /\ kw.pc = "clear"
    /\ warm' = {}
    /\ kw' = [kw EXCEPT !.pc = "lock"]
    /\ UNCHANGED <<upstream, files, read_lru, file_list, mmap, used, kept,
                   out, wr>>
    /\ UNCHANGED <<vmapVars, treeVars, queryVars, auxVars>>

\* Cache::keep_warm: file_list.write()
KwLock ==
    /\ kw.pc = "lock"
    /\ kw' = [kw EXCEPT !.pc = "loop"]
    /\ UNCHANGED <<upstream, files, read_lru, file_list, warm, mmap, used,
                   kept, out, wr>>
    /\ UNCHANGED <<vmapVars, treeVars, queryVars, auxVars>>

\* Cache::keep_warm: one turn of the loop, or its end, where the lock is
\* dropped
KwStep ==
    /\ kw.pc = "loop"
    /\ IF kw.i > Len(kw.ids)
       THEN /\ kw' = [kw EXCEPT !.pc = "done"]
            /\ kept' = Range(kw.ids)
            /\ UNCHANGED <<file_list, warm>>
       ELSE /\ file_list' = LruPop(file_list, kw.ids[kw.i])
            /\ IF kw.ids[kw.i] \in warm
               THEN /\ kw' = [kw EXCEPT !.pc = "done", !.st = "panic"]
                    /\ kept' = {}
                    /\ UNCHANGED warm
               ELSE /\ warm' = warm \cup {kw.ids[kw.i]}
                    /\ kw' = [kw EXCEPT !.i = kw.i + 1]
                    /\ UNCHANGED kept
    /\ UNCHANGED <<upstream, files, read_lru, mmap, used, out, wr>>
    /\ UNCHANGED <<vmapVars, treeVars, queryVars, auxVars>>

\* Cache::keep_warm has returned and its caller goes on
KwReturn ==
    /\ kw.pc = "done"
    /\ kw' = Idle
    /\ UNCHANGED <<upstream, files, read_lru, file_list, warm, mmap, used,
                   kept, out, wr>>
    /\ UNCHANGED <<vmapVars, treeVars, queryVars, auxVars>>

\* Cache::write_object: the write to upstream
WrStart(id, object) ==
    /\ wr = Idle
    /\ upstream' = [upstream EXCEPT ![id] = object]
    /\ wr' = [pc |-> "space", id |-> id, object |-> object, seen |-> FALSE]
    /\ UNCHANGED <<files, read_lru, file_list, warm, mmap, used, kept, out,
                   kw>>
    /\ UNCHANGED <<vmapVars, treeVars, queryVars, auxVars>>

\* Cache::make_space_for_object: one turn of the loop, or its end
WrSpace ==
    /\ wr.pc = "space"
    /\ LockFree
    /\ IF Size(CacheState) > SizeLimit - BLOCK_SIZE
       THEN IF file_list = <<>>
            THEN /\ wr' = Idle
                 /\ UNCHANGED <<files, read_lru, file_list>>
            ELSE \E d \in {DirectoryDelete(
                              [CacheState EXCEPT !.file_list = Tail(file_list)],
                              Head(file_list))} :
                    /\ files' = d.c.files
                    /\ read_lru' = d.c.read_lru
                    /\ file_list' = d.c.file_list
                    /\ wr' = IF d.st = "err" THEN Idle ELSE wr
       ELSE /\ wr' = [wr EXCEPT !.pc = "write"]
            /\ UNCHANGED <<files, read_lru, file_list>>
    /\ UNCHANGED <<upstream, warm, mmap, used, kept, out, kw>>
    /\ UNCHANGED <<vmapVars, treeVars, queryVars, auxVars>>

\* Cache::add_new_object: the file is written and warm.contains(id) is
\* evaluated
WrWrite ==
    /\ wr.pc = "write"
    /\ files' = [files EXCEPT ![wr.id] = wr.object]
    /\ wr' = [wr EXCEPT !.pc = "put", !.seen = wr.id \in warm]
    /\ UNCHANGED <<upstream, read_lru, file_list, warm, mmap, used, kept,
                   out, kw>>
    /\ UNCHANGED <<vmapVars, treeVars, queryVars, auxVars>>

\* Cache::add_new_object: an id that was not seen in warm is put into
\* file_list
WrPut ==
    /\ wr.pc = "put"
    /\ IF wr.seen
       THEN UNCHANGED file_list
       ELSE /\ LockFree
            /\ file_list' = LruPut(file_list, wr.id)
    /\ wr' = Idle
    /\ UNCHANGED <<upstream, files, read_lru, warm, mmap, used, kept, out,
                   kw>>
    /\ UNCHANGED <<vmapVars, treeVars, queryVars, auxVars>>

(***************************************************************************)
(* Pool: a bounded channel of instances that threads lease and give back.  *)
(* The instances of a roster are clones; they are told apart by a number.  *)
(***************************************************************************)
Threads == 1..NumThreads

\* the thread holds no PoolRef and is not in lease
NoLease == [pc |-> "none"]

\* Pool::new(items, instance) and Pool::with_constructor(count, constructor):
\* the channel is filled with count instances
NewPool(count, constructor) ==
    /\ pool = [count |-> count, queue |-> [i \in 1..count |-> i],
               constructor |-> constructor]
    /\ leases = [t \in Threads |-> NoLease]

\* Pool::with_constructor(0, constructor), where nothing is pooled
NoPool == NewPool(0, TRUE)

\* a send that loses the instance
SendLost(queue, instance) == queue

\* Sender::send on the channel
Send(queue, instance) == Append(queue, instance)

\* Pool::lease is called: with count = 0 an instance is constructed, else the
\* thread goes to wait in dequeue.recv()
PoolLease(t) ==
    /\ leases[t] = NoLease
    /\ leases' = [leases EXCEPT ![t] =
                    IF pool.count = 0
                    THEN [pc |-> "held", instance |-> MaxPool + t,
                          enqueue |-> FALSE]
                    ELSE [pc |-> "recv"]]
    /\ UNCHANGED pool
    /\ UNCHANGED <<vmapVars, treeVars, queryVars, cacheVars, exceptPool>>

\* Pool::lease: dequeue.recv() returns the instance at the head of the
\* channel
PoolRecv(t) ==
    /\ leases[t].pc = "recv"
    /\ pool.queue # <<>>
    /\ leases' = [leases EXCEPT ![t] =
                    [pc |-> "held", instance |-> Head(pool.queue),
                     enqueue |-> TRUE]]
    /\ pool' = [pool EXCEPT !.queue = Tail(pool.queue)]
    /\ UNCHANGED <<vmapVars, treeVars, queryVars, cacheVars, exceptPool>>

\* Drop for PoolRef: the instance is sent to enqueue, if there is one; the
\* send waits while the channel is full
PoolDrop(t) ==
    /\ leases[t].pc = "held"
    /\ IF leases[t].enqueue
       THEN /\ Len(pool.queue) < pool.count
            /\ pool' = [pool EXCEPT
                          !.queue = Send(pool.queue, leases[t].instance)]
       ELSE UNCHANGED pool
    /\ leases' = [leases EXCEPT ![t] = NoLease]
    /\ UNCHANGED <<vmapVars, treeVars, queryVars, cacheVars, exceptPool>>

(***************************************************************************)
(* BufferedSink and BufferedStream over an AEADWriter and an AEADReader.   *)
(* A byte is a number of Bytes; CHUNK_SIZE is ChunkRecs bytes and the      *)
(* buffer of the sink holds that many; 0 is the byte that fill(0) writes.  *)
(***************************************************************************)
Bytes == 1..NumBytes

\* the byte sequences of a length up to n
ByteSeqs(n) == UNION {[1..k -> Bytes] : k \in 0..n}

\* Option::None of pos and len of a BufferedStream
NoPos == -1

\* buffer.fill(0)
ZeroBuffer == [i \in 1..ChunkRecs |-> 0]

\* BufferedSink::new
NewSink ==
    [buffer |-> ZeroBuffer, chunks |-> <<>>, pos |-> 0, len |-> 0,
     finished |-> FALSE]

\* the sink and its writer as one value
SinkState(snk, ws) == [sink |-> snk, w |-> ws]

\* BufferedSink::empty_buffer: the bytes of the buffer up to len become one
\* chunk, whose pointer is pushed to chunks
EmptyBuffer(state) ==
    The({ (IF s.sink.len > 0
           THEN The({ [sink |-> [s.sink EXCEPT
                                   !.chunks = Append(@, w1.ptrs[Len(w1.ptrs)])],
                       w |-> w1]
                      : w1 \in {WriteChunk(s.w,
                                           SubSeq(s.sink.buffer, 1, s.sink.len),
                                           FALSE)} })
           ELSE s)
          : s \in {state} })

\* Write for BufferedSink: read_size
ReadSize(buf, start, pos) == Min(ChunkRecs - pos, Len(buf) - start)

\* Write for BufferedSink: the loop of write, from the byte after start
RECURSIVE SinkWriteLoop(_, _, _)
SinkWriteLoop(state, buf, from) ==
    The({ (IF size = 0 THEN s
           ELSE The({ SinkWriteLoop(
                        (IF s1.sink.len = ChunkRecs
                         THEN The({ [e EXCEPT !.sink.pos = 0, !.sink.len = 0,
                                              !.sink.buffer = ZeroBuffer]
                                    : e \in {EmptyBuffer(s1)} })
                         ELSE [s1 EXCEPT !.sink.pos = @ + size]),
                        buf, start + size)
                      : s1 \in {[s EXCEPT
                                  !.sink.len = @ + size,
                                  !.sink.buffer =
                                     [i \in 1..ChunkRecs |->
                                        IF i > s.sink.pos /\ i <= s.sink.len + size
                                        THEN buf[start + (i - s.sink.pos)]
                                        ELSE s.sink.buffer[i]]]} }))
          : s \in {state}, start \in {from},
            size \in {ReadSize(buf, from, state.sink.pos)} })

\* the chunks of a sink after clear
KeepChunks(chunks) == chunks

\* BufferedSink::clear: self.chunks.clear()
ClearChunks(chunks) == <<>>

\* BufferedSink::clear; the Stream is the field `stream` of the result
SinkClearOp(state) ==
    The({ [stream |-> e.sink.chunks,
           sink |-> [e.sink EXCEPT !.pos = 0, !.len = 0,
                                   !.buffer = ZeroBuffer,
                                   !.chunks = ClearChunks(e.sink.chunks)],
           w |-> e.w]
          : e \in {EmptyBuffer(state)} })

\* BufferedSink::finish: the writer is flushed
SinkFinishOp(state) ==
    The({ [stream |-> e.sink.chunks,
           sink |-> [e.sink EXCEPT !.finished = TRUE],
           w |-> Flush(e.w, FALSE)]
          : e \in {EmptyBuffer(state)} })

\* the order of the chunks is kept
SameOrder(s) == s

\* self.0.iter().rev().cloned().collect()
Reverse(s) == [i \in 1..Len(s) |-> s[Len(s) + 1 - i]]

\* no BufferedStream is open
NoStream == [of |-> 0]

\* Stream::open_with_buffer on the i-th Stream that the sink returned
OpenReader(stream, i) ==
    [of |-> i, chunks |-> Reverse(stream), pos |-> NoPos, len |-> NoPos,
     buffer |-> <<>>, st |-> "ok", eof |-> FALSE]

\* Read for BufferedStream: read into a buffer of n bytes, of which `sofar`
\* are written; chunks.pop() takes the last pointer
RECURSIVE StreamReadLoop(_, _, _, _)
StreamReadLoop(be, reader, n, sofar) ==
    The({ (IF Len(got) >= n THEN [r |-> r, got |-> got]
           ELSE IF r.pos # NoPos /\ r.len # NoPos /\ r.pos # r.len
           THEN The({ StreamReadLoop(be, [r EXCEPT !.pos = @ + size], n,
                                     got \o SubSeq(r.buffer, r.pos + 1,
                                                   r.pos + size))
                      : size \in {Min(n - Len(got), r.len - r.pos)} })
           ELSE IF r.chunks = <<>> THEN [r |-> r, got |-> got]
           ELSE The({ (IF c.st # "ok"
                       THEN [r |-> [r EXCEPT !.st = c.st,
                                     !.chunks = SubSeq(@, 1, Len(@) - 1)],
                             got |-> <<>>]
                       ELSE StreamReadLoop(be,
                               [r EXCEPT !.chunks = SubSeq(@, 1, Len(@) - 1),
                                         !.buffer = c.data,
                                         !.pos = 0, !.len = Len(c.data)],
                               n, got))
                      : c \in {ReadChunk(be, r.chunks[Len(r.chunks)],
                                         ROOT, ROOT)} }))
          : r \in {reader}, got \in {sofar} })

\* BufferedSink::new over AEADWriter::new on an empty backend
NewStreams ==
    /\ bsink = NewSink
    /\ bwriter = WriterState(DataWriter(1), EmptyMap, 2, <<>>)
    /\ written = <<>>
    /\ returned = <<>>
    /\ bstream = NoStream
    /\ readback = <<>>

\* Write for BufferedSink: write(buf)
SinkWrite(buf) ==
    /\ ~bsink.finished
    /\ Len(returned) < MaxClears
    /\ Len(written) + Len(buf) <= MaxWritten
    /\ \E s \in {SinkWriteLoop(SinkState(bsink, bwriter), buf, 0)} :
          /\ bsink' = s.sink
          /\ bwriter' = s.w
    /\ written' = written \o buf
    /\ UNCHANGED <<returned, bstream, readback>>
    /\ UNCHANGED <<vmapVars, treeVars, queryVars, cacheVars, exceptStream>>

\* BufferedSink::clear
SinkClear ==
    /\ ~bsink.finished
    /\ Len(returned) < MaxClears
    /\ \E s \in {SinkClearOp(SinkState(bsink, bwriter))} :
          /\ bsink' = s.sink
          /\ bwriter' = s.w
          /\ returned' = Append(returned, [stream |-> s.stream, bytes |-> written])
    /\ written' = <<>>
    /\ UNCHANGED <<bstream, readback>>
    /\ UNCHANGED <<vmapVars, treeVars, queryVars, cacheVars, exceptStream>>

\* BufferedSink::finish
SinkFinish ==
    /\ ~bsink.finished
    /\ Len(returned) < MaxClears
    /\ \E s \in {SinkFinishOp(SinkState(bsink, bwriter))} :
          /\ bsink' = s.sink
          /\ bwriter' = s.w
          /\ returned' = Append(returned, [stream |-> s.stream, bytes |-> written])
    /\ written' = <<>>
    /\ UNCHANGED <<bstream, readback>>
    /\ UNCHANGED <<vmapVars, treeVars, queryVars, cacheVars, exceptStream>>

\* Stream::open_reader on a Stream of the sink, once the writer is flushed
StreamOpen(i) ==
    /\ bsink.finished
    /\ i \in DOMAIN returned
    /\ bstream = NoStream
    /\ bstream' = OpenReader(returned[i].stream, i)
    /\ readback' = <<>>
    /\ UNCHANGED <<bsink, bwriter, written, returned>>
    /\ UNCHANGED <<vmapVars, treeVars, queryVars, cacheVars, exceptStream>>

\* Read for BufferedStream: read(buf) with a buffer of n bytes
StreamRead(n) ==
    /\ bstream # NoStream
    /\ bstream.st = "ok"
    /\ ~bstream.eof
    /\ \E s \in {StreamReadLoop(bwriter.be, bstream, n, <<>>)} :
          /\ bstream' = [s.r EXCEPT !.eof = Len(s.got) < n]
          /\ readback' = readback \o s.got
    /\ UNCHANGED <<bsink, bwriter, written, returned>>
    /\ UNCHANGED <<vmapVars, treeVars, queryVars, cacheVars, exceptStream>>

(***************************************************************************)
(* RawChunkPointer and its codec. A byte is a digit of base ByteBase; the  *)
(* sizes of the fields are scaled, a u32 being U32Size bytes wide. The     *)
(* order of the bytes of a u32 is that of the machine.                     *)
(***************************************************************************)
\* the values of a byte
ByteBase == 4

\* size_of::<u32>(), size_of::<ObjectId>(), size_of::<Digest>(),
\* size_of::<Tag>(), scaled
U32Size == 2
IdSize == 1
DigestSize == 1
TagSize == 1

\* size_of::<RawChunkPointer>()
RawPointerSize == U32Size + U32Size + IdSize + DigestSize + TagSize

\* the values of a u32
U32Max == 15

\* the bytes of a u32, the least significant first
LeBytes(v) == [i \in 1..U32Size |-> IF i = 1 THEN v % ByteBase
                                    ELSE (v \div ByteBase) % ByteBase]

\* the u32 of bytes that are read the least significant first, whatever
\* the machine
FromLeBytes(b, ne) == b[1] + ByteBase * b[2]

\* u32::to_ne_bytes
ToNeBytes(v, ne) ==
    IF ne = "little" THEN LeBytes(v)
    ELSE [i \in 1..U32Size |-> LeBytes(v)[U32Size + 1 - i]]

\* u32::from_ne_bytes
FromNeBytes(b, ne) ==
    IF ne = "little" THEN b[1] + ByteBase * b[2]
    ELSE b[2] + ByteBase * b[1]

\* buf[from..from + Len(src)].copy_from_slice(src), from counted from 0
CopyInto(buf, from, src) ==
    [i \in 1..Len(buf) |->
        IF i > from /\ i <= from + Len(src) THEN src[i - from] ELSE buf[i]]

\* RawChunkPointer::write_to: the buffer and the number of bytes written
WriteTo(p, buf, ne) ==
    [buf |-> CopyInto(
               CopyInto(
                 CopyInto(
                   CopyInto(
                     CopyInto(buf, 0, ToNeBytes(p.offs, ne)),
                     U32Size, ToNeBytes(p.size, ne)),
                   U32Size + U32Size, p.object),
                 U32Size + U32Size + IdSize, p.key),
               U32Size + U32Size + IdSize + DigestSize, p.tag),
     next |-> U32Size + U32Size + IdSize + DigestSize + TagSize]

\* RawChunkPointer::parse: the pointer and the number of bytes read
Parse(buf, ne) ==
    [next |-> U32Size + U32Size + IdSize + DigestSize + TagSize,
     pointer |->
        [offs   |-> FromNeBytes(SubSeq(buf, 1, U32Size), ne),
         size   |-> FromNeBytes(SubSeq(buf, U32Size + 1, U32Size + U32Size),
                                ne),
         object |-> SubSeq(buf, U32Size + U32Size + 1,
                           U32Size + U32Size + IdSize),
         key    |-> SubSeq(buf, U32Size + U32Size + IdSize + 1,
                           U32Size + U32Size + IdSize + DigestSize),
         tag    |-> SubSeq(buf, U32Size + U32Size + IdSize + DigestSize + 1,
                           U32Size + U32Size + IdSize + DigestSize + TagSize)]]

\* the RawChunkPointers that are written
RawPointers ==
    [offs : {0, 1, ByteBase, U32Max}, size : {0, ByteBase + 1, U32Max},
     object : [1..IdSize -> 0..NumCodecBytes - 1],
     key : [1..DigestSize -> 0..NumCodecBytes - 1],
     tag : [1..TagSize -> 0..NumCodecBytes - 1]]

\* a buffer that holds the byte `fill` everywhere
Filled(n, fill) == [i \in 1..n |-> fill]

\* nothing is encoded and nothing is parsed yet
NoCodec == [op |-> "none"]

\* a pointer to encode, on a machine of either byte order
NewCodec(p, e) ==
    /\ endian = e
    /\ rawptr = p
    /\ codec = NoCodec

\* RawChunkPointer::write_to into a buffer of n bytes that holds `fill`
PointerWrite(n, fill) ==
    /\ codec = NoCodec
    /\ \E w \in {WriteTo(rawptr, Filled(n, fill), endian)} :
          codec' = [op |-> "write_to", buf |-> w.buf, next |-> w.next,
                    fill |-> fill]
    /\ UNCHANGED <<endian, rawptr>>
    /\ UNCHANGED <<vmapVars, treeVars, queryVars, cacheVars, exceptCodec>>

\* RawChunkPointer::parse of the buffer that was written
PointerParse ==
    /\ codec.op = "write_to"
    /\ \E r \in {Parse(codec.buf, endian)} :
          codec' = [op |-> "parse", buf |-> codec.buf, next |-> r.next,
                    pointer |-> r.pointer, fill |-> codec.fill]
    /\ UNCHANGED <<endian, rawptr>>
    /\ UNCHANGED <<vmapVars, treeVars, queryVars, cacheVars, exceptCodec>>

(***************************************************************************)
(* A writer of the tree (Infinitree::storage_writer) that stores blobs,    *)
(* and the index that keeps the ChunkPointer of every key.                 *)
(***************************************************************************)
BlobKeys == 1..NumBlobKeys

\* the blobs that are written
Blobs == UNION {[1..n -> Bytes] : n \in 1..MaxBlobLen}

\* a writer with an empty object, and an empty index
NewBlobs ==
    [st |-> WriterState(DataWriter(1), EmptyMap, 2, <<>>), index |-> <<>>,
     committed |-> FALSE]

NoBlobs == blobs = NewBlobs

\* the chunks that the objects of the backend hold
StoredChunks(st) ==
    UNION {{[object |-> oid, offs |-> st.be[oid].chunks[i].offs,
             data |-> st.be[oid].chunks[i].data] :
               i \in DOMAIN st.be[oid].chunks} : oid \in DOMAIN st.be}

\* AEADWriter::write of a blob, and the insert of its ChunkPointer in the
\* index under a key
BlobWrite(key, blob) ==
    /\ ~blobs.committed
    /\ \A i \in DOMAIN blobs.index : blobs.index[i].key # key
    /\ \E st \in {WriteChunk(blobs.st, blob, FALSE)} :
          /\ ~st.err
          /\ blobs' = [blobs EXCEPT
                !.st = st,
                !.index = Append(@, [key |-> key, blob |-> blob,
                                     pointer |-> st.ptrs[Len(st.ptrs)]])]
    /\ UNCHANGED <<vmapVars, treeVars, queryVars, cacheVars, exceptBlobs>>

\* the writer is flushed when the tree is committed
BlobCommit ==
    /\ ~blobs.committed
    /\ blobs.index # <<>>
    /\ \E st \in {Flush(blobs.st, FALSE)} :
          blobs' = [blobs EXCEPT !.st = st, !.committed = TRUE]
    /\ UNCHANGED <<vmapVars, treeVars, queryVars, cacheVars, exceptBlobs>>

(***************************************************************************)
(* The Directory backend on its own (backends/directory.rs): `files` is    *)
(* its target directory and read_lru its cache of read handles.            *)
(***************************************************************************)
\* Directory::write_object: fs::write of the file of the id
DirectoryWriteObject(id, object) ==
    /\ out = NoCall
    /\ files' = [files EXCEPT ![id] = object]
    /\ out' = [op |-> "write_object", id |-> id, st |-> "ok",
               ret |-> NoObject, evicted |-> <<>>]
    /\ UNCHANGED <<upstream, read_lru, file_list, warm, mmap, used, kept,
                   kw, wr>>
    /\ UNCHANGED <<vmapVars, treeVars, queryVars, auxVars>>

\* Directory::read_object
DirectoryReadObject(id) ==
    /\ out = NoCall
    /\ \E r \in {DirectoryRead(CacheState, id, mmap)} :
          /\ read_lru' = r.c.read_lru
          /\ out' = [op |-> "read_object", id |-> id, st |-> r.st,
                     ret |-> r.ret, evicted |-> <<>>]
    /\ UNCHANGED <<upstream, files, file_list, warm, mmap, used, kept,
                   kw, wr>>
    /\ UNCHANGED <<vmapVars, treeVars, queryVars, auxVars>>

(***************************************************************************)
(* The sealed header of crypto/symmetric.rs:                               *)
(*   encrypt(root || mode || convergence_key || 0..) || mac || nonce       *)
(* The AEAD is symbolic: a byte of cyphertext records the key, the nonce,  *)
(* its position and the byte it hides, and the tag records the key, the    *)
(* nonce and the whole cleartext.                                          *)
(***************************************************************************)
\* size_of::<Nonce>(), scaled
NonceSize == 1

\* HEADER_SIZE, scaled: the pointer, the mode, the key, one byte of padding,
\* the tag and the nonce
HEADER_SIZE == 12

HEADER_PAYLOAD == HEADER_SIZE - TagSize - NonceSize

HEADER_CYPHERTEXT == HEADER_SIZE - NonceSize

\* the values of a RawKey and of a Nonce
RawKeys == [1..DigestSize -> 0..NumCodecBytes - 1]

Nonces == [1..NonceSize -> 0..NumCodecBytes - 1]

\* derive_subkey(master_key, "zerostash.com 2022 root key")
root_key(master_key) == <<"zerostash.com 2022 root key", master_key>>

\* Mode as u8
ModeByte(mode) == IF mode = "Mixed08" THEN 0 ELSE 1

\* Mode::try_from
ModeTryFrom(value) ==
    CASE value = 0 -> "Mixed08"
      [] value = 1 -> "Symmetric"
      [] OTHER -> "Fatal"

\* Mode::keysource
keysource(mode, master_key, convergence_key) ==
    IF mode = "Symmetric"
    THEN [scheme |-> "Symmetric", master_key |-> master_key,
          convergence_key |-> convergence_key]
    ELSE [scheme |-> "MixedScheme", master_key |-> master_key,
          ops |-> [scheme |-> "Key08", master_key |-> convergence_key]]

\* CryptoScheme::expose_convergence_key
expose_convergence_key(key) ==
    CASE key.scheme = "Symmetric" ->
            [some |-> TRUE, key |-> key.convergence_key]
      [] key.scheme = "MixedScheme" ->
            [some |-> TRUE, key |-> key.ops.master_key]
      [] OTHER -> [some |-> FALSE]

\* the key sources that a CleartextHeader holds
KeySources ==
    {keysource(mode, m, c) :
        mode \in {"Symmetric", "Mixed08"}, m \in RawKeys, c \in RawKeys}
    \cup {[scheme |-> "CryptoBoxStorage"]}

\* the mode that the seal_root of a scheme writes
ModeOf(key) == IF key.scheme = "MixedScheme" THEN "Mixed08" ELSE "Symmetric"

\* Mode::encode_root_to
encode_root_to(mode, output, header, ne) ==
    The({ IF ~expose_convergence_key(header.key).some
          THEN [ok |-> FALSE, err |-> "Fatal"]
          ELSE [ok |-> TRUE,
                output |-> CopyInto([w.buf EXCEPT ![w.next + 1] =
                                                    ModeByte(mode)],
                                    w.next + 1,
                                    expose_convergence_key(header.key).key),
                pos |-> w.next + 1 + DigestSize]
          : w \in {WriteTo(header.root_ptr, output, ne)} })

\* aead.seal_in_place_separate_tag
seal_in_place(key, nonce, plain) ==
    [ct  |-> [i \in 1..Len(plain) |->
                [k |-> key, n |-> nonce, i |-> i, b |-> plain[i]]],
     tag |-> [j \in 1..TagSize |->
                [k |-> key, n |-> nonce, j |-> j, mac |-> plain]]]

\* the bytes that a key and a nonce give from a cyphertext
Decrypted(key, nonce, ct) ==
    [i \in 1..Len(ct) |->
        IF ct[i].k = key /\ ct[i].n = nonce /\ ct[i].i = i
        THEN ct[i].b ELSE ByteBase]

\* aead.open_in_place on the cyphertext followed by the tag
open_in_place(key, nonce, in_out) ==
    The({ IF \A j \in 1..TagSize :
                in_out[Len(plain) + j] =
                    [k |-> key, n |-> nonce, j |-> j, mac |-> plain]
          THEN [ok |-> TRUE, plain |-> plain]
          ELSE [ok |-> FALSE, err |-> "Unspecified"]
          : plain \in {Decrypted(key, nonce,
                                 SubSeq(in_out, 1, Len(in_out) - TagSize))} })

\* seal_header
seal_header(master_key, mode, header, nonce, ne) ==
    The({ IF ~e.ok THEN e
          ELSE The({ [ok |-> TRUE,
                      sealed |->
                         CopyInto(
                           CopyInto(
                             CopyInto(e.output, HEADER_CYPHERTEXT, nonce),
                             0, s.ct),
                           HEADER_PAYLOAD, s.tag)]
                     : s \in {seal_in_place(root_key(master_key), nonce,
                                  SubSeq(e.output, 1, HEADER_PAYLOAD))} })
          : e \in {encode_root_to(mode, [i \in 1..HEADER_SIZE |-> 0],
                                  header, ne)} })

\* the convergence key that starts after pos bytes of the header
ReadFirstKey(header, pos) == SubSeq(header, 1, DigestSize)

\* buf.copy_from_slice(&header[pos..pos + CRYPTO_DIGEST_SIZE])
ReadKey(header, pos) == SubSeq(header, pos + 1, pos + DigestSize)

\* open_header
open_header(master_key, sealed_header, ne) ==
    The({ IF ~o.ok THEN o
          ELSE The({ IF ModeTryFrom(o.plain[p.next + 1]) = "Fatal"
                     THEN [ok |-> FALSE, err |-> "Fatal"]
                     ELSE [ok |-> TRUE,
                           root_ptr |-> p.pointer,
                           key |-> keysource(
                                     ModeTryFrom(o.plain[p.next + 1]),
                                     master_key,
                                     ReadKey(o.plain, p.next + 1))]
                     : p \in {Parse(o.plain, ne)} })
          : o \in {open_in_place(
                      root_key(master_key),
                      SubSeq(sealed_header, HEADER_CYPHERTEXT + 1,
                             HEADER_SIZE),
                      SubSeq(sealed_header, 1, HEADER_CYPHERTEXT))} })

\* no header is sealed
NoHeader == hdr = [op |-> "none"]

\* a scheme and a CleartextHeader that it is to seal
NewHeader(scheme, key) ==
    hdr = [op |-> "new", scheme |-> scheme,
           header |-> [root_ptr |-> rawptr, key |-> key]]

\* Symmetric::seal_root and MixedScheme::seal_root with the nonce that
\* SystemRandom gives
HeaderSeal(nonce) ==
    /\ hdr.op = "new"
    /\ hdr' = [op |-> "seal_root", scheme |-> hdr.scheme,
               header |-> hdr.header,
               res |-> seal_header(hdr.scheme.master_key, ModeOf(hdr.scheme),
                                   hdr.header, nonce, endian)]
    /\ UNCHANGED <<rot, codecVars>>
    /\ UNCHANGED <<vmapVars, treeVars, queryVars, cacheVars, exceptHeader>>

\* Symmetric::open_root of the sealed header with a master key
HeaderOpen(master_key) ==
    /\ hdr.op = "seal_root"
    /\ hdr.res.ok
    /\ hdr' = [op |-> "open_root", scheme |-> hdr.scheme,
               header |-> hdr.header, sealed |-> hdr.res.sealed,
               opener |-> master_key,
               res |-> open_header(master_key, hdr.res.sealed, endian)]
    /\ UNCHANGED <<rot, codecVars>>
    /\ UNCHANGED <<vmapVars, treeVars, queryVars, cacheVars, exceptHeader>>

(***************************************************************************)
(* LinkedList (fields/versioned/list.rs). A node has a value and a link;   *)
(* nodes are named by the order of their allocation and 0 is the null      *)
(* pointer. push is given in its atomic steps, one thread at a time;       *)
(* rollback and store, which commits, are called while no push is under    *)
(* way.                                                                    *)
(***************************************************************************)
ListThreads == 1..NumListThreads

ListVals == 1..NumListVals

\* LinkedList::default, threads that are in no call and nothing stored
NewList ==
    [nodes |-> <<>>, first |-> 0, last |-> 0, commit_start |-> 0,
     previous_commit_last |-> 0,
     th |-> [t \in ListThreads |-> [pc |-> "idle", node |-> 0, ptr |-> 0]],
     stored |-> <<>>, at_commit |-> <<>>, rolled |-> FALSE, at_rollback |-> 0]

NoList == list = NewList

\* NodeIter::next, taken until `current` is None
RECURSIVE NodeIter(_, _, _)
NodeIter(nodes, cur, sofar) ==
    IF cur = 0 \/ Len(sofar) > Len(nodes) THEN sofar
    ELSE NodeIter(nodes, nodes[cur].next, Append(sofar, cur))

\* LinkedList::iter: the nodes from `first`
Iter(l) == NodeIter(l.nodes, l.first, <<>>)

\* Node::set_next, push_back of scc's LinkedList: the entry takes the link
\* of `ptr` and `ptr` is linked to the entry
set_next(nodes, ptr, next) ==
    [nodes EXCEPT ![next].next = nodes[ptr].next, ![ptr].next = next]

\* no thread is inside push
Quiet(l) == \A t \in ListThreads : l.th[t].pc = "idle"

\* LinkedList::push: the node is allocated and commit_start takes it by
\* compare_exchange when it is null
PushNode(t, v) ==
    /\ list.th[t].pc = "idle"
    /\ Len(list.nodes) < MaxNodes
    /\ \E node \in {Len(list.nodes) + 1} :
          list' = [list EXCEPT
             !.nodes = Append(@, [val |-> v, next |-> 0]),
             !.commit_start = IF @ = 0 THEN node ELSE @,
             !.th[t] = [pc |-> IF list.commit_start = 0 THEN "first"
                               ELSE "load",
                        node |-> node, ptr |-> 0]]
    /\ UNCHANGED <<vmapVars, treeVars, queryVars, cacheVars, exceptList>>

\* and_then of push: `first` takes the node by compare_exchange when it is
\* null
PushFirst(t) ==
    /\ list.th[t].pc = "first"
    /\ list' = [list EXCEPT
          !.first = IF @ = 0 THEN list.th[t].node ELSE @,
          !.th[t].pc = "load"]
    /\ UNCHANGED <<vmapVars, treeVars, queryVars, cacheVars, exceptList>>

\* let ptr = self.inner.last.load(..)
PushLoad(t) ==
    /\ list.th[t].pc = "load"
    /\ list' = [list EXCEPT !.th[t].ptr = list.last, !.th[t].pc = "swap"]
    /\ UNCHANGED <<vmapVars, treeVars, queryVars, cacheVars, exceptList>>

\* self.inner.last.swap(node)
PushSwap(t) ==
    /\ list.th[t].pc = "swap"
    /\ list' = [list EXCEPT !.last = list.th[t].node, !.th[t].pc = "link"]
    /\ UNCHANGED <<vmapVars, treeVars, queryVars, cacheVars, exceptList>>

\* ptr.set_next(node) when the pointer that was loaded is not null; push
\* returns
PushLink(t) ==
    /\ list.th[t].pc = "link"
    /\ list' = [list EXCEPT
          !.nodes = IF list.th[t].ptr = 0 THEN @
                    ELSE set_next(@, list.th[t].ptr, list.th[t].node),
          !.th[t] = [pc |-> "idle", node |-> 0, ptr |-> 0]]
    /\ UNCHANGED <<vmapVars, treeVars, queryVars, cacheVars, exceptList>>

\* LinkedList::commit; at_commit keeps what iter() gave at the commit, and
\* a rollback is over
commit(l) ==
    [l EXCEPT !.commit_start = 0, !.previous_commit_last = l.last,
              !.at_commit = Iter(l), !.rolled = FALSE]

\* LinkedList::rollback; at_rollback keeps the number of nodes allocated
\* before the rollback
LinkedListRollback ==
    /\ Quiet(list)
    /\ list' = [list EXCEPT !.last = list.previous_commit_last,
                            !.commit_start = 0,
                            !.rolled = TRUE,
                            !.at_rollback = Len(list.nodes)]
    /\ UNCHANGED <<vmapVars, treeVars, queryVars, cacheVars, exceptList>>

\* Store::store of LocalField<LinkedList<T>>: write_next of every item of
\* iter(), then commit; `stored` keeps the nodes written by each call and
\* the nodes that follow from commit_start, the first of the commit, and
\* whether a rollback came since the commit before
LinkedListStore ==
    /\ Quiet(list)
    /\ Len(list.stored) < MaxListStores
    /\ list' = [commit(list) EXCEPT
          !.stored = Append(@, [written |-> Iter(list),
                                fresh |-> NodeIter(list.nodes,
                                            list.commit_start, <<>>),
                                rolled |-> list.rolled])]
    /\ UNCHANGED <<vmapVars, treeVars, queryVars, cacheVars, exceptList>>

(***************************************************************************)
(* Map (fields/map.rs): an scc HashMap behind an Arc that threads share.   *)
(* Map::insert is given in its two calls on the hash map.                  *)
(***************************************************************************)
MapThreads == 1..NumMapThreads

\* Map::default and threads that are in no call
NewMap ==
    [map |-> EmptyMap,
     th |-> [t \in MapThreads |-> [pc |-> "idle", key |-> None,
                                   value |-> None, ret |-> None]]]

NoMap == cmap = NewMap

\* HashMap::insert of scc: a key that is present keeps its value
HashMapInsert(m, key, value) ==
    IF key \in DOMAIN m THEN m ELSE MapPut(m, key, value)

\* Map::insert up to the match: self.get(&key); an existing value is
\* returned
InsertGet(t, key, value) ==
    /\ cmap.th[t].pc \in {"idle", "returned"}
    /\ cmap' = [cmap EXCEPT
          !.th[t] = IF key \in DOMAIN cmap.map
                    THEN [pc |-> "returned", key |-> key, value |-> value,
                          ret |-> cmap.map[key]]
                    ELSE [pc |-> "insert", key |-> key, value |-> value,
                          ret |-> None]]
    /\ UNCHANGED <<vmapVars, treeVars, queryVars, cacheVars, exceptMap>>

\* the None arm of Map::insert: self.0.insert(key, new.clone()), whose
\* result is dropped, and `new` is returned
InsertNew(t) ==
    /\ cmap.th[t].pc = "insert"
    /\ cmap' = [cmap EXCEPT
          !.map = HashMapInsert(@, cmap.th[t].key, cmap.th[t].value),
          !.th[t].pc = "returned",
          !.th[t].ret = cmap.th[t].value]
    /\ UNCHANGED <<vmapVars, treeVars, queryVars, cacheVars, exceptMap>>

(***************************************************************************)
(* KeyingScheme and ChangeHeaderKey (crypto/scheme.rs), and a tree that    *)
(* is committed, opened and resealed with them. The root object of a tree  *)
(* is stored under the root ObjectId of its header key; it holds the       *)
(* sealed header and the root index, which the index key of the            *)
(* convergence key encrypts.                                               *)
(***************************************************************************)
\* KeyingScheme::new
KeyingScheme(header, convergence) ==
    [scheme |-> "KeyingScheme", header |-> header,
     convergence |-> convergence]

\* ChangeHeaderKey::swap_on_seal
swap_on_seal(original, new) ==
    [scheme |-> "ChangeHeaderKey", opener |-> original.header,
     sealer |-> new.header, convergence |-> original.convergence]

\* the keys that a tree is opened with: the convergence key of a new key
\* object is random
Schemes ==
    {KeyingScheme(m, c) : m \in RawKeys, c \in RawKeys}
    \cup {swap_on_seal(KeyingScheme(m, c), KeyingScheme(n, c)) :
             m \in RawKeys, n \in RawKeys, c \in RawKeys}

\* derive_subkey(master_key, "zerostash.com 2022 root object id")
root_object_id(master_key) == <<"zerostash.com 2022 root object id", master_key>>

\* Scheme::root_object_id
SchemeRootObjectId(scheme) ==
    IF scheme.scheme = "ChangeHeaderKey"
    THEN root_object_id(scheme.opener)
    ELSE root_object_id(scheme.header)

\* the identifier of the Symmetric internal scheme in the header
SymmetricId == 1

\* InternalScheme::write_key of Symmetric
write_key(convergence, raw_head, pos) ==
    CopyInto([raw_head EXCEPT ![pos + 1] = SymmetricId], pos + 1, convergence)

\* InternalScheme::read_key of Symmetric
read_key(raw_head, pos) == SubSeq(raw_head, pos + 2, pos + 1 + DigestSize)

\* HeaderScheme::seal_root of the password scheme
HeaderSealRoot(master_key, open, nonce) ==
    The({ CopyInto(
            CopyInto(CopyInto(open, HEADER_CYPHERTEXT, nonce), 0, s.ct),
            HEADER_PAYLOAD, s.tag)
          : s \in {seal_in_place(root_key(master_key), nonce,
                                 SubSeq(open, 1, HEADER_PAYLOAD))} })

\* HeaderScheme::open_root of the password scheme
HeaderOpenRoot(master_key, sealed_header) ==
    open_in_place(root_key(master_key),
                  SubSeq(sealed_header, HEADER_CYPHERTEXT + 1, HEADER_SIZE),
                  SubSeq(sealed_header, 1, HEADER_CYPHERTEXT))

\* HeaderScheme::open_header
HeaderOpenHeader(master_key, sealed_header, ne) ==
    The({ IF ~o.ok THEN o
          ELSE The({ [ok |-> TRUE, root_ptr |-> p.pointer,
                      key |-> KeyingScheme(master_key,
                                           read_key(o.plain, p.next))]
                     : p \in {Parse(o.plain, ne)} })
          : o \in {HeaderOpenRoot(master_key, sealed_header)} })

\* the header scheme that the key of an opened Header seals with: the
\* opener of a ChangeHeaderKey
OpenedWithOpener(scheme) ==
    IF scheme.scheme = "ChangeHeaderKey" THEN scheme.opener
    ELSE scheme.header

\* the header scheme that the key of an opened Header seals with: the
\* sealer of a ChangeHeaderKey
OpenedWith(scheme) ==
    IF scheme.scheme = "ChangeHeaderKey" THEN scheme.sealer
    ELSE scheme.header

\* KeyingScheme::open_root and ChangeHeaderKey::open_root
SchemeOpenRoot(scheme, sealed_header, ne) ==
    The({ IF ~h.ok THEN h
          ELSE [ok |-> TRUE, root_ptr |-> h.root_ptr,
                key |-> KeyingScheme(OpenedWith(scheme), h.key.convergence)]
          : h \in {HeaderOpenHeader(
                      IF scheme.scheme = "ChangeHeaderKey"
                      THEN scheme.opener ELSE scheme.header,
                      sealed_header, ne)} })

\* KeyingScheme::seal_root and ChangeHeaderKey::seal_root
SchemeSealRoot(scheme, root_ptr, nonce, ne) ==
    The({ HeaderSealRoot(
            IF scheme.scheme = "ChangeHeaderKey"
            THEN scheme.sealer ELSE scheme.header,
            write_key(scheme.convergence, w.buf, w.next), nonce)
          : w \in {WriteTo(root_ptr, [i \in 1..HEADER_SIZE |-> 0], ne)} })

\* derive_subkey(convergence_key, "zerostash.com 2022 index key")
index_key(convergence) == <<"zerostash.com 2022 index key", convergence>>

\* the root pointer of a root index with n commits
RootPointer(n) ==
    [offs |-> HEADER_SIZE, size |-> n, object |-> Filled(IdSize, 1),
     key |-> Filled(DigestSize, 0), tag |-> Filled(TagSize, n % ByteBase)]

\* the root ObjectIds
RootIds == {root_object_id(m) : m \in RawKeys}

\* no object is stored and no tree is open
NoTree == [open |-> FALSE]

\* no header key is being changed
NoSwap == [st |-> "none"]

NoRotation ==
    rot = [store |-> [id \in RootIds |-> [some |-> FALSE]], tree |-> NoTree,
           swap |-> NoSwap, last |-> "none", ok |-> TRUE]

\* Infinitree::empty with a key
NewRotation(key) ==
    rot = [store |-> [id \in RootIds |-> [some |-> FALSE]],
           tree |-> [open |-> TRUE, key |-> key, commit_list |-> <<>>,
                     contents |-> 0],
           swap |-> NoSwap, last |-> "empty", ok |-> TRUE]

\* sealed_root::commit: the root index is written under the index key of
\* the tree's key, the header is sealed by that key, and the root object is
\* written under its root ObjectId
SealedRootCommit(store, tree, nonce, ne) ==
    [store EXCEPT ![SchemeRootObjectId(tree.key)] =
        [some |-> TRUE,
         sealed |-> SchemeSealRoot(tree.key,
                                   RootPointer(Len(tree.commit_list)),
                                   nonce, ne),
         body |-> [key |-> index_key(tree.key.convergence),
                   pointer |-> RootPointer(Len(tree.commit_list)),
                   commit_list |-> tree.commit_list,
                   contents |-> tree.contents]]]

\* sealed_root::open: the root object of the key's root ObjectId is read,
\* its header is opened by the key, and the root index is read with the
\* index key of the key that the header gave
SealedRootOpen(store, key, ne) ==
    The({ IF ~obj.some THEN [ok |-> FALSE, err |-> "NoObject"]
          ELSE The({ IF ~h.ok THEN h
                     ELSE IF \/ obj.body.key # index_key(h.key.convergence)
                             \/ obj.body.pointer # h.root_ptr
                          THEN [ok |-> FALSE, err |-> "Decrypt"]
                     ELSE [ok |-> TRUE,
                           tree |-> [open |-> TRUE, key |-> h.key,
                                     commit_list |-> obj.body.commit_list,
                                     contents |-> obj.body.contents]]
                     : h \in {SchemeOpenRoot(key, obj.sealed, ne)} })
          : obj \in {store[SchemeRootObjectId(key)]} })

\* the convergence key that a header holds, for the one who knows the
\* master key
SealedConvergence(store, master_key, ne) ==
    HeaderOpenHeader(master_key, store[root_object_id(master_key)].sealed,
                     ne).key.convergence

\* Infinitree::commit: a commit is added and the root is sealed
RotCommit(v, nonce) ==
    /\ rot.tree.open
    /\ Len(rot.tree.commit_list) < MaxRotCommits
    /\ \E tree \in {[rot.tree EXCEPT
                       !.commit_list = Append(@, Len(@) + 1),
                       !.contents = v]} :
          rot' = [store |-> SealedRootCommit(rot.store, tree, nonce, endian),
                  tree |-> tree, swap |-> NoSwap, last |-> "commit",
                  ok |-> TRUE]
    /\ UNCHANGED <<hdr, codecVars>>
    /\ UNCHANGED <<vmapVars, treeVars, queryVars, cacheVars, exceptHeader>>

\* the tree is dropped
RotDrop ==
    /\ rot.tree.open
    /\ rot' = [store |-> rot.store, tree |-> NoTree, swap |-> rot.swap,
               last |-> "drop", ok |-> TRUE]
    /\ UNCHANGED <<hdr, codecVars>>
    /\ UNCHANGED <<vmapVars, treeVars, queryVars, cacheVars, exceptHeader>>

\* Infinitree::open with a key; `swap` keeps what a tree held when it was
\* opened with a ChangeHeaderKey, and whether it is then resealed and
\* opened with a key of the new header scheme
RotOpen(key) ==
    /\ ~rot.tree.open
    /\ \E r \in {SealedRootOpen(rot.store, key, endian)} :
          rot' = [store |-> rot.store,
                  tree |-> IF r.ok THEN r.tree ELSE NoTree,
                  swap |->
                     IF r.ok /\ key.scheme = "ChangeHeaderKey"
                     THEN [st |-> "opened", old |-> key.opener,
                           new |-> key.sealer,
                           convergence |->
                              SealedConvergence(rot.store, key.opener,
                                                endian),
                           commit_list |-> r.tree.commit_list,
                           contents |-> r.tree.contents]
                     ELSE IF /\ rot.swap.st = "resealed"
                             /\ key.scheme = "KeyingScheme"
                             /\ key.header = rot.swap.new
                     THEN [rot.swap EXCEPT !.st = "reopened",
                                           !.key = key]
                     ELSE NoSwap,
                  last |-> "open", ok |-> r.ok]
    /\ UNCHANGED <<hdr, codecVars>>
    /\ UNCHANGED <<vmapVars, treeVars, queryVars, cacheVars, exceptHeader>>

\* Infinitree::reseal: sealed_root::commit of the root as it is
RotReseal(nonce) ==
    /\ rot.tree.open
    /\ rot.store[SchemeRootObjectId(rot.tree.key)].some
          \/ rot.swap.st = "opened"
    /\ rot' = [store |-> SealedRootCommit(rot.store, rot.tree, nonce,
                                          endian),
               tree |-> rot.tree,
               swap |-> IF rot.swap.st \in {"opened", "resealed"}
                        THEN [st |-> "resealed", old |-> rot.swap.old,
                              new |-> rot.swap.new,
                              convergence |-> rot.swap.convergence,
                              commit_list |-> rot.swap.commit_list,
                              contents |-> rot.swap.contents,
                              key |-> rot.tree.key]
                        ELSE NoSwap,
               last |-> "reseal", ok |-> TRUE]
    /\ UNCHANGED <<hdr, codecVars>>
    /\ UNCHANGED <<vmapVars, treeVars, queryVars, cacheVars, exceptHeader>>

(***************************************************************************)
(* InFlightTracker of the S3 backend. One thread calls write_object and    *)
(* sync; the tasks that add_task spawns run on the runtime beside it. A    *)
(* task awaits its PUT, then removes the entry of its key from `active`.   *)
(***************************************************************************)
S3Ids == 1..NumS3Ids

\* no task is spawned and no call was made
NewTracker ==
    [permits |-> NumPermits, active |-> [id \in S3Ids |-> 0], tasks |-> <<>>,
     pc |-> "idle", handle |-> 0, handles |-> {}, last |-> "none",
     res |-> "none", stored |-> [id \in S3Ids |-> 0]]

NoTracker == tracker = NewTracker

\* the tasks whose PUT is still awaited and that no later write aborted
InFlight(tasks) ==
    {t \in DOMAIN tasks : tasks[t].st = "running" /\ ~tasks[t].aborted}

\* the tasks whose future has not returned
Unjoined(tasks) ==
    {t \in DOMAIN tasks : tasks[t].st \in {"running", "put_done"}}

\* the most recent call of write_object for an id, 0 when there is none
LatestWrite(tasks, id) ==
    IF \A t \in DOMAIN tasks : tasks[t].key # id THEN 0
    ELSE CHOOSE t \in DOMAIN tasks :
            /\ tasks[t].key = id
            /\ \A u \in DOMAIN tasks : tasks[u].key = id => u <= t

\* S3::write_object, InFlightTracker::add_task up to task::spawn: a permit
\* is acquired and the task is spawned
S3WriteObject(id) ==
    /\ tracker.pc = "idle"
    /\ Len(tracker.tasks) < MaxTasks
    /\ tracker.permits > 0
    /\ tracker' = [tracker EXCEPT
          !.permits = @ - 1,
          !.tasks = Append(@, [key |-> id, st |-> "running",
                               aborted |-> FALSE]),
          !.handle = Len(tracker.tasks) + 1,
          !.pc = "upsert"]
    /\ UNCHANGED <<vmapVars, treeVars, queryVars, cacheVars, exceptS3>>

\* JoinHandle::abort of the handle that an entry holds
Abort(tasks, t) ==
    IF t = 0 THEN tasks ELSE [tasks EXCEPT ![t].aborted = TRUE]

\* active.upsert_async of add_task: the handle of an entry of the key is
\* aborted and replaced; write_object returns
S3Upsert ==
    /\ tracker.pc = "upsert"
    /\ \E key \in {tracker.tasks[tracker.handle].key} :
          tracker' = [tracker EXCEPT
             !.tasks = Abort(@, tracker.active[key]),
             !.active[key] = tracker.handle,
             !.handle = 0,
             !.pc = "idle",
             !.last = "write_object",
             !.res = "Ok"]
    /\ UNCHANGED <<vmapVars, treeVars, queryVars, cacheVars, exceptS3>>

\* the PUT of a task is answered with a status in 200..300 while the task
\* is polled: the bucket holds the body of this task, the body that the
\* t-th call of write_object passed, and task.await returns
TaskPut(t) ==
    /\ t \in DOMAIN tracker.tasks
    /\ tracker.tasks[t].st = "running"
    /\ ~tracker.tasks[t].aborted
    /\ tracker' = [tracker EXCEPT !.tasks[t].st = "put_done",
                                  !.stored[tracker.tasks[t].key] = t]
    /\ UNCHANGED <<vmapVars, treeVars, queryVars, cacheVars, exceptS3>>

\* the PUT of a task is answered with another status: the task panics and
\* drops its permit
TaskPanic(t) ==
    /\ t \in DOMAIN tracker.tasks
    /\ tracker.tasks[t].st = "running"
    /\ ~tracker.tasks[t].aborted
    /\ tracker' = [tracker EXCEPT !.tasks[t].st = "panicked",
                                  !.permits = @ + 1]
    /\ UNCHANGED <<vmapVars, treeVars, queryVars, cacheVars, exceptS3>>

\* a task that was aborted while it awaited its PUT is cancelled
TaskCancel(t) ==
    /\ t \in DOMAIN tracker.tasks
    /\ tracker.tasks[t].st = "running"
    /\ tracker.tasks[t].aborted
    /\ tracker' = [tracker EXCEPT !.tasks[t].st = "cancelled",
                                  !.permits = @ + 1]
    /\ UNCHANGED <<vmapVars, treeVars, queryVars, cacheVars, exceptS3>>

\* active.remove_async(&key) of a task, then its result and its permit
TaskRemove(t) ==
    /\ t \in DOMAIN tracker.tasks
    /\ tracker.tasks[t].st = "put_done"
    /\ tracker' = [tracker EXCEPT
          !.active[tracker.tasks[t].key] = 0,
          !.tasks[t].st = "finished",
          !.permits = @ + 1]
    /\ UNCHANGED <<vmapVars, treeVars, queryVars, cacheVars, exceptS3>>

\* S3::sync, InFlightTracker::complete_all up to join_all: retain_async
\* takes every handle and removes every entry
S3Sync ==
    /\ tracker.pc = "idle"
    /\ tracker' = [tracker EXCEPT
          !.handles = {tracker.active[id] : id \in S3Ids} \ {0},
          !.active = [id \in S3Ids |-> 0],
          !.pc = "join_all"]
    /\ UNCHANGED <<vmapVars, treeVars, queryVars, cacheVars, exceptS3>>

\* join_all returns when the task of every handle is over; the results of
\* cancelled tasks are dropped and the panic of a task is the error of sync
S3Joined ==
    /\ tracker.pc = "join_all"
    /\ tracker.handles \cap Unjoined(tracker.tasks) = {}
    /\ tracker' = [tracker EXCEPT
          !.handles = {},
          !.pc = "idle",
          !.last = "sync",
          !.res = IF \E t \in tracker.handles :
                        tracker.tasks[t].st = "panicked"
                  THEN "Err" ELSE "Ok"]
    /\ UNCHANGED <<vmapVars, treeVars, queryVars, cacheVars, exceptS3>>

(***************************************************************************)
(* Store::store of a VersionedMap (fields/versioned/map.rs) in its two     *)
(* parts, beside the writes of threads that hold a clone of the map: the   *)
(* walk over `current` that writes the records, then commit().             *)
(***************************************************************************)
\* no store is under way and no stream was written
NewStore == [pc |-> "idle", stream |-> EmptyMap, streams |-> <<>>]

NoStore == vstore = NewStore

\* the value that the latest of the streams gives a key, None when the
\* key was removed there or is in no stream
RECURSIVE Replayed(_, _)
Replayed(ss, k) ==
    IF ss = <<>> THEN None
    ELSE IF k \in DOMAIN ss[Len(ss)] THEN ss[Len(ss)][k]
    ELSE Replayed(SubSeq(ss, 1, Len(ss) - 1), k)

\* Store::store up to self.commit(): write_next of every entry of
\* `current`
VStoreWrite ==
    /\ pc = "idle"
    /\ vstore.pc = "idle"
    /\ Len(vstore.streams) < MaxVStores
    /\ vstore' = [vstore EXCEPT !.pc = "commit", !.stream = current]
    /\ UNCHANGED <<vmapVars, treeVars, queryVars, cacheVars, exceptVStore>>

\* self.commit() of Store::store: the entries that `current` has now are
\* folded into `base`; the stream of the store is complete
VStoreCommit ==
    /\ vstore.pc = "commit"
    /\ base' = CommitFold(base, current)
    /\ current' = EmptyMap
    /\ lastOp' = "commit"
    /\ histBase' = hist
    /\ vstore' = [pc |-> "idle", stream |-> EmptyMap,
                  streams |-> Append(vstore.streams, vstore.stream)]
    /\ UNCHANGED <<hist, treeVars, queryVars, cacheVars, exceptVStore>>

(***************************************************************************)
(* AEADWriter by the byte (object/writer.rs): the cursor of its object     *)
(* counts from the start of the object, so that the header region of a     *)
(* root writer is part of it. An object has ObjCap bytes and a chunk is    *)
(* given by the size of its compressed form.                               *)
(***************************************************************************)
\* Mode::Data and Mode::SealRoot(header_size)
ModeData == [kind |-> "Data", header_size |-> 0]

SealRoot(header_size) == [kind |-> "SealRoot", header_size |-> header_size]

\* a skip that reserves nothing
SkipNothing(mode) == 0

\* Mode::skip
skip(mode) == IF mode.kind = "SealRoot" THEN mode.header_size ELSE 0

\* the ObjectIds that a root writer is given to rewrite; random ids are
\* the numbers above them
RewriteIds == 1..NumRewriteIds

RewriteLists == {<<>>} \cup {[i \in 1..n |-> i] : n \in RewriteIds}

\* the last call on the writer
NoWrite == [op |-> "none", st |-> "Ok", size |-> 0, flushed |-> FALSE]

\* rewrite_or_reset_id: the id is popped from `rewrite`, else it is random
rewrite_or_reset_id(w) ==
    The({ (IF n > 0
           THEN [w EXCEPT !.id = w.rewrite[n],
                          !.rewrite = SubSeq(w.rewrite, 1, n - 1)]
           ELSE [w EXCEPT !.id = w.next, !.next = w.next + 1])
          : n \in {Len(w.rewrite)} })

\* AEADWriter::new
AEADWriterNew ==
    [mode |-> ModeData, id |-> NumRewriteIds + 1, next |-> NumRewriteIds + 2,
     pos |-> 0, rewrite |-> <<>>, ptrs |-> <<>>, flushed |-> <<>>,
     last |-> NoWrite]

\* AEADWriter::for_root: the object is sought to header_size
for_root(header_size, rewrite) ==
    rewrite_or_reset_id(
       [mode |-> SealRoot(header_size), id |-> 0, next |-> NumRewriteIds + 1,
        pos |-> header_size, rewrite |-> rewrite, ptrs |-> <<>>,
        flushed |-> <<>>, last |-> NoWrite])

NoAEADWriter == aead = AEADWriterNew

\* compress::compress_into: the size of the compressed chunk, or Err (0)
\* when the buffer is shorter
compress_into(size, buffer) == IF size <= buffer THEN size ELSE 0

\* AEADWriter::flush; `fail` is the outcome of Backend::write_object, an
\* error of which returns before the id and the cursor are reset
flush(w, fail) ==
    IF fail THEN [st |-> "Err", w |-> w]
    ELSE [st |-> "Ok",
          w |-> [rewrite_or_reset_id(
                    [w EXCEPT !.flushed = Append(@, w.id)])
                 EXCEPT !.pos = skip(w.mode)]]

\* the end of write_chunk: the pointer of the chunk at the cursor, which
\* moves on by the size of the chunk
encrypt_chunk(w, size, flushed) ==
    [w EXCEPT !.ptrs = Append(@, [object |-> w.id, offs |-> w.pos,
                                  size |-> size]),
              !.pos = @ + size,
              !.last = [op |-> "write_chunk", st |-> "Ok", size |-> size,
                        flushed |-> flushed]]

\* AEADWriter::write_chunk
write_chunk(w, size, fail) ==
    IF compress_into(size, ObjCap - w.pos) # 0
    THEN encrypt_chunk(w, size, FALSE)
    ELSE The({ (IF f.st = "Err"
                THEN [f.w EXCEPT !.last = [op |-> "write_chunk",
                                           st |-> "Err", size |-> size,
                                           flushed |-> FALSE]]
                ELSE IF compress_into(size, ObjCap - f.w.pos) = 0
                THEN [f.w EXCEPT !.last = [op |-> "write_chunk",
                                           st |-> "ChunkTooLarge",
                                           size |-> size, flushed |-> TRUE]]
                ELSE encrypt_chunk(f.w, size, TRUE))
               : f \in {flush(w, fail)} })

\* Writer::write_chunk on the writer
WriterWriteChunk(size, fail) ==
    /\ Len(aead.ptrs) < MaxPointers
    /\ Len(aead.flushed) < MaxFlushes
    /\ aead' = write_chunk(aead, size, fail)
    /\ UNCHANGED <<vmapVars, treeVars, queryVars, cacheVars, exceptWriter>>

\* Writer::flush on the writer
WriterFlush(fail) ==
    /\ Len(aead.flushed) < MaxFlushes
    /\ \E f \in {flush(aead, fail)} :
          aead' = [f.w EXCEPT !.last = [op |-> "flush", st |-> f.st,
                                        size |-> 0, flushed |-> ~fail]]
    /\ UNCHANGED <<vmapVars, treeVars, queryVars, cacheVars, exceptWriter>>

\* a RawChunkPointer::default() on a little-endian machine
NoCodecInput ==
    NewCodec([offs |-> 0, size |-> 0, object |-> Filled(IdSize, 0),
              key |-> Filled(DigestSize, 0), tag |-> Filled(TagSize, 0)],
             "little")

\* the state of the fields that are modelled on their own
NoMore == NoList /\ NoMap /\ NoStore /\ NoAEADWriter

\* no header, no tracker and no writer of blobs
NoLate == NoHeader /\ NoRotation /\ NoTracker /\ NoBlobs /\ NoMore

\* the parts of the state that a specification does not use
NoAux == NoPool /\ NewStreams /\ NoCodecInput /\ NoLate

(***************************************************************************)
(* Specifications.                                                         *)
(***************************************************************************)
\* Infinitree::empty over an empty backend, with VersionedMap::default()
InitCore ==
    /\ base = EmptyMap
    /\ current = EmptyMap
    /\ lastOp = "new"
    /\ status = "ok"
    /\ cret = <<>>
    /\ hist = NoHist
    /\ histBase = NoHist
    /\ backend = EmptyMap
    /\ nextOid = 1
    /\ faults = 0
    /\ transaction_log = <<>>
    /\ commit_list = <<>>
    /\ objects = {}
    /\ shadow_root = ROOT
    /\ commit_filter = FilterAll
    /\ pc = "idle"
    /\ sink = NoWriter
    /\ writer = NoWriter
    /\ pending = NoPending
    /\ issued = <<>>
    /\ sealed = NoSealed
    /\ failed = FALSE
    /\ reopened = FALSE
    /\ NewIndex("VersionedMap")
    /\ NewCache
    /\ mmap = FALSE

\* the state after construction
Init == InitCore /\ NoAux

\* the same, the field "root" being of any collection type
InitQuery ==
    \E kd \in Kinds :
       /\ base = EmptyMap
       /\ current = EmptyMap
       /\ lastOp = "new"
       /\ status = "ok"
       /\ cret = <<>>
       /\ hist = NoHist
       /\ histBase = NoHist
       /\ backend = EmptyMap
       /\ nextOid = 1
       /\ faults = 0
       /\ transaction_log = <<>>
       /\ commit_list = <<>>
       /\ objects = {}
       /\ shadow_root = ROOT
       /\ commit_filter = FilterAll
       /\ pc = "idle"
       /\ sink = NoWriter
       /\ writer = NoWriter
       /\ pending = NoPending
       /\ issued = <<>>
       /\ sealed = NoSealed
       /\ failed = FALSE
       /\ reopened = FALSE
       /\ NewIndex(kd)
       /\ NewCache
       /\ mmap = FALSE
       /\ NoAux

CommitModes == {"Always", "OnlyOnChange"}

NextVMap ==
    \/ \E k \in Keys, v \in Vals : VInsert(k, v)
    \/ \E k \in Keys, v \in Vals : VUpdateWith(k, v)
    \/ \E k \in Keys : VRemove(k)
    \/ VCommit
    \/ VRollback

SpecVMap == Init /\ [][NextVMap]_vars

Next ==
    \/ \E k \in TreeKeys, v \in TreeVals : VInsert(k, v)
    \/ \E k \in TreeKeys, v \in TreeVals : VUpdateWith(k, v)
    \/ \E k \in TreeKeys : VRemove(k)
    \/ \E mode \in CommitModes, fail \in BOOLEAN : CommitStore(mode, fail)
    \/ CommitRecord
    \/ \E fail \in BOOLEAN : SealStage(fail)
    \/ \E fail \in BOOLEAN : SealHead(fail)
    \/ \E failRoot \in BOOLEAN, failSink \in BOOLEAN :
          DropWriters(failRoot, failSink)
    \/ Open
    \/ LoadAll

Spec == Init /\ [][Next]_vars

\* an id that no commit has
UnknownId == CommitHash(CommitMetadata(<<>>), <<>>)

\* the filters a client can ask for: over the ids of the commit list and one
\* id that is not in it
Filters ==
    LET ids == {commit_list[i].id : i \in DOMAIN commit_list} \cup {UnknownId}
    IN  {FilterAll}
        \cup {FilterSingle(id) : id \in ids}
        \cup {FilterUpTo(id) : id \in ids}
        \cup {FilterRange(a, b) : a \in ids, b \in ids}

NextFilter ==
    \/ \E k \in TreeKeys, v \in TreeVals : VInsert(k, v)
    \/ \E mode \in CommitModes : CommitStore(mode, FALSE)
    \/ CommitRecord
    \/ SealStage(FALSE)
    \/ SealHead(FALSE)
    \/ DropWriters(FALSE, FALSE)
    \/ \E f \in Filters : FilterCommits(f)
    \/ Open
    \/ LoadAll

SpecFilter == Init /\ [][NextFilter]_vars

\* the predicates a query is made with
Predicates == [Keys -> QueryAction]

NextQuery ==
    \/ \E k \in Keys, v \in FieldVals : FieldVInsert(k, v)
    \/ \E k \in Keys : FieldVRemove(k)
    \/ \E t \in Keys : FieldPush(t)
    \/ \E k \in Keys, v \in FieldVals : FieldMapInsert(k, v)
    \/ \E k \in Keys : FieldMapRemove(k)
    \/ \E t \in Keys : FieldVecPush(t)
    \/ \E v \in Vals : FieldWrite(v)
    \/ FieldCommit
    \/ \E r \in Ranges : FieldLoad(r[1], r[2])
    \/ \E r \in Ranges, p \in Predicates : FieldQuery(r[1], r[2], p)
    \/ \E r \in Ranges, p \in Predicates : FieldIter(r[1], r[2], p)

SpecQuery == InitQuery /\ [][NextQuery]_vars

\* the same, over a cache of either build
InitCache ==
    \E mapped \in BOOLEAN :
       /\ base = EmptyMap
       /\ current = EmptyMap
       /\ lastOp = "new"
       /\ status = "ok"
       /\ cret = <<>>
       /\ hist = NoHist
       /\ histBase = NoHist
       /\ backend = EmptyMap
       /\ nextOid = 1
       /\ faults = 0
       /\ transaction_log = <<>>
       /\ commit_list = <<>>
       /\ objects = {}
       /\ shadow_root = ROOT
       /\ commit_filter = FilterAll
       /\ pc = "idle"
       /\ sink = NoWriter
       /\ writer = NoWriter
       /\ pending = NoPending
       /\ issued = <<>>
       /\ sealed = NoSealed
       /\ failed = FALSE
       /\ reopened = FALSE
       /\ NewIndex("VersionedMap")
       /\ NewCache
       /\ mmap = mapped
       /\ NoAux

\* the lists of ids a client passes to keep_warm
WarmLists ==
    UNION {[1..n -> ObjIds] : n \in 0..(SizeLimit \div BLOCK_SIZE) + 1}

NextCache ==
    \/ \E id \in ObjIds : \E object \in VersionsOf(id) : UpstreamWrite(id, object)
    \/ \E id \in ObjIds : \E object \in VersionsOf(id) :
          CacheWriteObject(id, object)
    \/ \E id \in ObjIds : CacheReadObject(id)
    \/ \E id \in ObjIds : CacheReadFresh(id)
    \/ \E ids \in WarmLists : CacheKeepWarm(ids)
    \/ CacheReturn

SpecCache == InitCache /\ [][NextCache]_vars


\* a keep_warm and a write_object that run at the same time
NextCacheRace ==
    \/ \E ids \in WarmLists : KwStart(ids)
    \/ KwClear
    \/ KwLock
    \/ KwStep
    \/ KwReturn
    \/ \E id \in ObjIds : \E object \in VersionsOf(id) : WrStart(id, object)
    \/ WrSpace
    \/ WrWrite
    \/ WrPut

SpecCacheRace == InitCache /\ [][NextCacheRace]_vars

\* a Pool of any size, built with a roster or with a constructor
InitPool ==
    /\ InitCore
    /\ \E count \in 0..MaxPool : \E constructor \in BOOLEAN :
          /\ count = 0 => constructor
          /\ NewPool(count, constructor)
    /\ NewStreams
    /\ NoCodecInput
    /\ NoLate

NextPool ==
    \/ \E t \in Threads : PoolLease(t)
    \/ \E t \in Threads : PoolRecv(t)
    \/ \E t \in Threads : PoolDrop(t)

SpecPool == InitPool /\ [][NextPool]_vars

\* a BufferedSink that is written, cleared and finished, and whose Streams
\* are read back
InitBuffered == InitCore /\ NoPool /\ NewStreams /\ NoCodecInput /\ NoLate

NextBuffered ==
    \/ \E buf \in ByteSeqs(MaxWrite) : SinkWrite(buf)
    \/ SinkClear
    \/ SinkFinish
    \/ \E i \in 1..MaxClears : StreamOpen(i)
    \/ \E n \in 1..MaxRead : StreamRead(n)

SpecBuffered == InitBuffered /\ [][NextBuffered]_vars

\* a RawChunkPointer is written to a buffer and parsed from it
InitCodec ==
    /\ InitCore /\ NoPool /\ NewStreams /\ NoLate
    /\ \E p \in RawPointers : \E e \in {"little", "big"} : NewCodec(p, e)

NextCodec ==
    \/ \E n \in RawPointerSize..RawPointerSize + MaxSlack :
          \E fill \in 0..ByteBase - 1 : PointerWrite(n, fill)
    \/ PointerParse

SpecCodec == InitCodec /\ [][NextCodec]_vars

\* a CleartextHeader is sealed by a scheme and opened with a master key
InitHeader ==
    /\ InitCore /\ NoPool /\ NewStreams /\ NoRotation /\ NoTracker /\ NoBlobs
    /\ NoMore
    /\ \E p \in RawPointers : \E e \in {"little", "big"} : NewCodec(p, e)
    /\ \E mode \in {"Symmetric", "Mixed08"} : \E m \in RawKeys :
          \E key \in KeySources :
             /\ key.scheme # "CryptoBoxStorage" => key.master_key = m
             /\ NewHeader(keysource(mode, m, m), key)

NextHeader ==
    \/ \E nonce \in Nonces : HeaderSeal(nonce)
    \/ \E master_key \in RawKeys : HeaderOpen(master_key)

SpecHeader == InitHeader /\ [][NextHeader]_vars

\* write_object and sync on the S3 backend, and the tasks of its tracker
InitS3 ==
    /\ InitCore /\ NoPool /\ NewStreams /\ NoCodecInput
    /\ NoHeader /\ NoRotation /\ NoBlobs
    /\ NoTracker /\ NoMore

NextS3 ==
    \/ \E id \in S3Ids : S3WriteObject(id)
    \/ S3Upsert
    \/ \E t \in 1..MaxTasks : TaskPut(t)
    \/ \E t \in 1..MaxTasks : TaskPanic(t)
    \/ \E t \in 1..MaxTasks : TaskCancel(t)
    \/ \E t \in 1..MaxTasks : TaskRemove(t)
    \/ S3Sync
    \/ S3Joined

SpecS3 == InitS3 /\ [][NextS3]_vars

\* blobs are written through a writer of the tree under index keys, and
\* the tree is committed
InitBlobs ==
    /\ InitCore /\ NoPool /\ NewStreams /\ NoCodecInput
    /\ NoHeader /\ NoRotation /\ NoTracker
    /\ NoBlobs /\ NoMore

NextBlobs ==
    \/ \E key \in BlobKeys : \E blob \in Blobs : BlobWrite(key, blob)
    \/ BlobCommit

SpecBlobs == InitBlobs /\ [][NextBlobs]_vars

\* a tree is created with a key, committed, dropped, opened with a key or a
\* ChangeHeaderKey, and resealed
InitRotate ==
    /\ InitCore /\ NoPool /\ NewStreams /\ NoHeader /\ NoTracker /\ NoBlobs
    /\ NoMore
    /\ \E e \in {"little", "big"} : NewCodec(RootPointer(0), e)
    /\ \E m \in RawKeys : \E c \in RawKeys : NewRotation(KeyingScheme(m, c))

NextRotate ==
    \/ \E v \in 1..NumRotVals : \E nonce \in Nonces : RotCommit(v, nonce)
    \/ RotDrop
    \/ \E key \in Schemes : RotOpen(key)
    \/ \E nonce \in Nonces : RotReseal(nonce)

SpecRotate == InitRotate /\ [][NextRotate]_vars

\* a LinkedList that one thread pushes to, rolls back and stores
InitMore == InitCore /\ NoAux

NextList ==
    \/ \E v \in ListVals : PushNode(1, v)
    \/ PushFirst(1)
    \/ PushLoad(1)
    \/ PushSwap(1)
    \/ PushLink(1)
    \/ LinkedListRollback
    \/ LinkedListStore

SpecList == InitMore /\ [][NextList]_vars

\* a LinkedList that several threads push to
NextListPush ==
    \/ \E t \in ListThreads : \E v \in ListVals : PushNode(t, v)
    \/ \E t \in ListThreads : PushFirst(t)
    \/ \E t \in ListThreads : PushLoad(t)
    \/ \E t \in ListThreads : PushSwap(t)
    \/ \E t \in ListThreads : PushLink(t)

SpecListPush == InitMore /\ [][NextListPush]_vars

\* a Map that several threads insert into
NextMap ==
    \/ \E t \in MapThreads : \E key \in Keys : \E value \in Vals :
          InsertGet(t, key, value)
    \/ \E t \in MapThreads : InsertNew(t)

SpecMap == InitMore /\ [][NextMap]_vars

\* a VersionedMap that is stored while clones of it are written
NextVStore ==
    \/ \E k \in Keys, v \in Vals : VInsert(k, v)
    \/ \E k \in Keys, v \in Vals : VUpdateWith(k, v)
    \/ \E k \in Keys : VRemove(k)
    \/ VStoreWrite
    \/ VStoreCommit

SpecVStore == InitMore /\ [][NextVStore]_vars

\* a Directory whose objects are written, written again and read
NextDirectory ==
    \/ \E id \in ObjIds : \E object \in VersionsOf(id) :
          DirectoryWriteObject(id, object)
    \/ \E id \in ObjIds : DirectoryReadObject(id)
    \/ CacheReturn

SpecDirectory == InitCache /\ [][NextDirectory]_vars

\* a writer of data objects or of root objects that writes chunks and is
\* flushed, over a backend whose writes may fail
InitWriter ==
    /\ InitCore /\ NoPool /\ NewStreams /\ NoCodecInput
    /\ NoHeader /\ NoRotation /\ NoTracker /\ NoBlobs
    /\ NoList /\ NoMap /\ NoStore
    /\ \/ aead = AEADWriterNew
       \/ \E rewrite \in RewriteLists : aead = for_root(RootSkip, rewrite)

NextWriter ==
    \/ \E size \in 1..MaxChunkSize : \E fail \in BOOLEAN :
          WriterWriteChunk(size, fail)
    \/ \E fail \in BOOLEAN : WriterFlush(fail)

SpecWriter == InitWriter /\ [][NextWriter]_vars
(***************************************************************************)
(* C4. get(k) is the value of the most recent write to k that has not been *)
(* removed or rolled back: the delta's entry if there is one (nothing for  *)
(* a tombstone), else the base's.                                          *)
(***************************************************************************)
C4_GetIsLatestWrite ==
    \A k \in Keys :
        /\ Get(base, current, k) = hist[k]
        /\ (k \in DOMAIN current => Get(base, current, k) = current[k])
        /\ (k \notin DOMAIN current /\ k \in DOMAIN base
                => Get(base, current, k) = base[k])

\* a committed value removed in the delta while another key is still read
\* from the base
C4_Witness ==
    /\ lastOp = "remove"
    /\ \E k \in Keys :
          /\ k \in DOMAIN base /\ base[k] # None
          /\ k \in DOMAIN current /\ current[k] = None
    /\ \E k \in Keys :
          k \notin DOMAIN current /\ k \in DOMAIN base /\ base[k] # None

(***************************************************************************)
(* C5. len() equals the number of keys k with contains(k): it never counts *)
(* a removed key and never goes below zero.                                *)
(***************************************************************************)
C5_LenCountsContained ==
    /\ VLen(base, current) >= 0
    /\ VLen(base, current)
         = Cardinality({k \in Keys : Contains(base, current, k)})

(***************************************************************************)
(* C6. VersionedMap::commit() folds the delta into the base: afterwards    *)
(* the delta is empty, a key whose delta entry was a tombstone has no      *)
(* entry in the base, a key whose delta entry was a value maps to that     *)
(* value in the base, and every other base entry is unchanged.             *)
(***************************************************************************)
C6_CommitFoldsDelta ==
    [][lastOp' = "commit" =>
        /\ current' = EmptyMap
        /\ \A k \in DOMAIN current :
              /\ current[k] = None => k \notin DOMAIN base'
              /\ current[k] # None => k \in DOMAIN base' /\ base'[k] = current[k]
        /\ \A k \in (DOMAIN base) \ (DOMAIN current) :
              k \in DOMAIN base' /\ base'[k] = base[k]
        /\ DOMAIN base' \subseteq (DOMAIN base) \cup (DOMAIN current)
      ]_vars

(***************************************************************************)
(* C1. When a backend write issued during a commit fails, opening the      *)
(* backend afterwards yields the commit list of the last successful commit *)
(* and load_all yields its field contents.                                 *)
(***************************************************************************)
C1_FailedCommitKeepsLastSealed ==
    (failed /\ sealed.some /\ lastOp \in {"open", "open_load_all"}) =>
        /\ status = "ok"
        /\ commit_list = sealed.commit_list
        /\ (lastOp = "open_load_all" => View(base, current) = sealed.stored)

C3_OpenLoadEqualsMemory ==
    (lastOp = "open_load_all" /\ faults = 0 /\ sealed.some /\ sealed.direct) =>
        /\ status = "ok"
        /\ View(base, current) = sealed.view
        /\ VLen(base, current) = sealed.len

(***************************************************************************)
(* C7. A commit in OnlyOnChange mode in which every field's stream is      *)
(* empty creates nothing: it returns the previous last commit (None when   *)
(* there is none) and leaves the commit list, the transaction log and the  *)
(* root object on the backend as they were.                                *)
(***************************************************************************)
RootObject(be) == IF ROOT \in DOMAIN be THEN <<be[ROOT]>> ELSE <<>>

C7_EmptyOnlyOnChangeCommitIsNoop ==
    [][(/\ pc = "idle"
        /\ current = EmptyMap
        /\ lastOp' = "tree_commit"
        /\ pending'.mode = "OnlyOnChange") =>
          /\ pc' = "idle"
          /\ status' = "ok"
          /\ cret' = LastCommit(commit_list)
          /\ commit_list' = commit_list
          /\ transaction_log' = transaction_log
          /\ RootObject(backend') = RootObject(backend)
      ]_vars

\* an OnlyOnChange commit of an unchanged index returned the last commit of
\* a tree that has one
C7_Witness ==
    /\ pc = "idle"
    /\ lastOp = "tree_commit"
    /\ pending.mode = "OnlyOnChange"
    /\ issued = <<>>
    /\ status = "ok"
    /\ cret # <<>>
    /\ cret = LastCommit(commit_list)

(***************************************************************************)
(* C8. The commit list is one chain in the order the commits were made:    *)
(* the first commit has previous = None and every later commit's previous  *)
(* is the id of the commit just before it in the list.                     *)
(***************************************************************************)
C8_CommitListIsChain ==
    /\ \A i \in DOMAIN commit_list :
          commit_list[i].metadata.previous
            = IF i = 1 THEN NoId ELSE <<commit_list[i - 1].id>>
    /\ \A i, j \in DOMAIN commit_list :
          commit_list[i].id = commit_list[j].id => i = j

\* three commits made one after the other, the last one just returned
C8_Witness ==
    /\ pc = "idle"
    /\ lastOp = "tree_commit"
    /\ status = "ok"
    /\ Len(commit_list) = MaxCommits
    /\ cret = LastCommit(commit_list)
    /\ ~reopened

(***************************************************************************)
(* C9. The commit list and the transaction log in memory never hold a      *)
(* commit whose sealed root is not on the backend: a commit whose persist  *)
(* step failed is in neither.                                              *)
(***************************************************************************)
C9_ListedCommitsArePersisted ==
    pc = "idle" =>
        LET r == OpenRoot(backend)
        IN  /\ \A i \in DOMAIN commit_list :
                  /\ r.st = "ok"
                  /\ \E j \in DOMAIN r.commit_list :
                        r.commit_list[j] = commit_list[i]
            /\ \A i \in DOMAIN transaction_log :
                  /\ r.st = "ok"
                  /\ \E j \in DOMAIN r.transaction_log :
                        r.transaction_log[j] = transaction_log[i]


(* C25. Whatever commits were made, objects() of the RootIndex holds the ObjectId of every ChunkPointer of every Stream that the transaction log holds for a commit of the commit list. *)
C25_ObjectsCoverTheStreams ==
    \A i \in DOMAIN transaction_log :
       (\E c \in DOMAIN commit_list :
           commit_list[c].id = transaction_log[i].id) =>
          StreamObjects(transaction_log[i].stream)
             \subseteq RootIndexObjects(objects, transaction_log, shadow_root)

C25_Witness ==
    /\ pc = "idle"
    /\ Len(commit_list) > 1
    /\ shadow_root \in objects
    /\ \E i, j \in DOMAIN transaction_log :
          /\ transaction_log[i].id # transaction_log[j].id
          /\ transaction_log[i].stream # <<>>
          /\ transaction_log[j].stream # <<>>
(***************************************************************************)
(* C10. For the filters All, UpTo(id) and Range(start, end) the resolved   *)
(* commits are those from the upper bound (the last commit, id, end) back  *)
(* along the previous links to the lower bound (the first commit, or       *)
(* start), both included, and the filtered transaction list is the log     *)
(* entries of exactly those commits. Range takes start no later than end,  *)
(* as CommitFilter::Range requires.                                        *)
(***************************************************************************)
Known(id) == \E i \in DOMAIN commit_list : commit_list[i].id = id

IndexOf(id) == CHOOSE i \in DOMAIN commit_list : commit_list[i].id = id

C10_FilterResolvesBounds ==
    LET f  == commit_filter
        ok == \/ f.kind = "All"
              \/ f.kind = "UpTo" /\ Known(f.a)
              \/ /\ f.kind = "Range" /\ Known(f.a) /\ Known(f.b)
                 /\ IndexOf(f.a) <= IndexOf(f.b)
    IN  ok =>
        LET hi == CASE f.kind = "All"   -> Len(commit_list)
                    [] f.kind = "UpTo"  -> IndexOf(f.a)
                    [] f.kind = "Range" -> IndexOf(f.b)
            lo == IF f.kind = "Range" THEN IndexOf(f.a) ELSE 1
            resolved == ApplyCommitFilter(commit_list, f)
        IN  /\ resolved.some
            /\ resolved.list = [j \in 1..(hi - lo + 1) |->
                                   commit_list[hi - j + 1].id]
            /\ FilterGenerations(transaction_log, commit_list, f)
                 = SelectSeq(transaction_log,
                      LAMBDA e : \E i \in lo..hi : commit_list[i].id = e.id)

\* load_all under a Range from the second to the third commit: the first
\* commit is older than start
C10_Witness ==
    /\ lastOp = "load_all"
    /\ Len(commit_list) = MaxCommits
    /\ commit_filter.kind = "Range"
    /\ commit_filter.a = commit_list[2].id
    /\ commit_filter.b = commit_list[3].id


(***************************************************************************)
(* C11. With the filter Single(id) the resolved commits are id alone and   *)
(* the filtered transaction list is the log entries recorded by commit id  *)
(* and nothing of any other commit; no commit is resolved for an id the    *)
(* commit list does not have. A load into an empty index then holds what   *)
(* the streams of that commit hold.                                        *)
(***************************************************************************)
C11_SingleResolvesOneCommit ==
    commit_filter.kind = "Single" =>
        LET f        == commit_filter
            resolved == ApplyCommitFilter(commit_list, f)
            filtered == FilterGenerations(transaction_log, commit_list, f)
            mine     == SelectSeq(transaction_log, LAMBDA e : e.id = f.a)
        IN  /\ resolved.some = Known(f.a)
            /\ Known(f.a) => resolved.list = <<f.a>>
            /\ ~Known(f.a) => filtered = <<>>
            /\ Known(f.a) =>
                  /\ filtered = mine
                  /\ \A i \in DOMAIN filtered : filtered[i].id = f.a
                  /\ LoadedView(backend, transaction_log, commit_list, f)
                       = View(InsertAll(EmptyMap,
                                 SelectRecords(backend,
                                               ForField(mine, "root")).data),
                              EmptyMap)

\* load_all under Single of the first of three commits: it has successors
\* in the log and is not the last commit
C11_Witness ==
    /\ lastOp = "load_all"
    /\ Len(commit_list) = MaxCommits
    /\ commit_filter.kind = "Single"
    /\ commit_filter.a = commit_list[1].id
    /\ \E i \in DOMAIN transaction_log :
          transaction_log[i].id # commit_filter.a
(***************************************************************************)
(* Claims about depth, loads and queries.                                  *)
(***************************************************************************)
(* C12. A load of an Incremental field (VersionedMap, LinkedList) into an empty field reads every stream of the range, newest commit first, and the field then holds a record if and only if no record of a newer commit of the range has its key. *)
C12_IncrementalLoadKeepsNewest ==
    (loaded.op = "load" /\ DepthOf(kind) = "Incremental") =>
        LET range == SubSeq(streams, loaded.from, loaded.to)
            RECURSIVE All(_)
            All(ss) == IF ss = <<>> THEN <<>> ELSE Head(ss) \o All(Tail(ss))
            RECURSIVE Fresh(_, _)
            Fresh(ss, seen) ==
                IF ss = <<>> THEN <<>>
                ELSE SelectSeq(Head(ss), LAMBDA r : KeyOf(kind, r) \notin seen)
                     \o Fresh(Tail(ss),
                              seen \cup {KeyOf(kind, Head(ss)[i])
                                           : i \in DOMAIN Head(ss)})
            fresh == Fresh(range, {})
        IN  /\ loaded.read = All(range)
            /\ kind = "VersionedMap" =>
                  /\ DOMAIN loaded.field.base
                       = {fresh[i][1] : i \in DOMAIN fresh}
                  /\ \A i \in DOMAIN fresh :
                        loaded.field.base[fresh[i][1]] = fresh[i][2]
            /\ kind = "LinkedList" => ListIter(loaded.field) = fresh

(* C13. A load of a Snapshot field (Serialized, Map, List) into an empty field reads the stream of the newest commit of the range and no other, and the field then holds exactly what it held at that commit. *)
C13_SnapshotLoadIsNewestCommit ==
    (/\ loaded.op = "load"
     /\ DepthOf(kind) = "Snapshot"
     /\ loaded.from <= loaded.to) =>
        /\ loaded.read = streams[loaded.from]
        /\ Content(kind, loaded.field) = contents[loaded.from]

C13_Witness ==
    /\ kind = "Map"
    /\ loaded.op = "load"
    /\ loaded.from < loaded.to
    /\ (DOMAIN contents[loaded.to]) \ (DOMAIN contents[loaded.from]) # {}
    /\ DOMAIN contents[loaded.from] # {}

(* C14. The items that Infinitree::iter yields have pairwise different keys, the predicate answers Take for the key of each of them, and each is the first record of its key on the walk of the streams from the newest commit to the oldest: the record of the newest commit that has the key. *)
C14_IterYieldsNewestOncePerKey ==
    (loaded.op = "iter" /\ loaded.some) =>
        LET walk == Resolve(DepthOf(kind), SubSeq(streams, loaded.from, loaded.to))
            RECURSIVE All(_)
            All(ss) == IF ss = <<>> THEN <<>> ELSE Head(ss) \o All(Tail(ss))
            records == All(walk)
            y == loaded.yielded
        IN  /\ \A i \in DOMAIN y, j \in DOMAIN y :
                  KeyOf(kind, y[i]) = KeyOf(kind, y[j]) => i = j
            /\ \A i \in DOMAIN y :
                  /\ loaded.predicate[KeyOf(kind, y[i])] = "Take"
                  /\ \E n \in DOMAIN records :
                        /\ records[n] = y[i]
                        /\ \A m \in 1..(n - 1) :
                              KeyOf(kind, records[m]) # KeyOf(kind, y[i])

C14_Witness ==
    /\ kind = "VersionedMap"
    /\ loaded.op = "iter"
    /\ loaded.from = 1
    /\ loaded.to = 2
    /\ \E i \in DOMAIN streams[1], j \in DOMAIN streams[2] :
          /\ streams[1][i][1] = streams[2][j][1]
          /\ streams[1][i][2] # streams[2][j][2]
          /\ \E n \in DOMAIN loaded.yielded : loaded.yielded[n] = streams[1][i]
    /\ Len(loaded.yielded) = NumKeys

(* C15. When the predicate of a query answers Abort for a record, the query stops and the field holds only records read before it: no later record of the same stream and no record of the stream of an older commit is inserted. *)
C15_AbortStopsTheQuery ==
    loaded.op = "query" =>
        LET walk == Resolve(DepthOf(kind), SubSeq(streams, loaded.from, loaded.to))
            RECURSIVE All(_)
            All(ss) == IF ss = <<>> THEN <<>> ELSE Head(ss) \o All(Tail(ss))
            records == All(walk)
            aborts == {n \in DOMAIN records :
                          loaded.predicate[KeyOf(kind, records[n])] = "Abort"}
        IN  aborts # {} =>
               LET n == CHOOSE a \in aborts : \A b \in aborts : a <= b
                   taken == SelectSeq(SubSeq(records, 1, n - 1),
                               LAMBDA r : loaded.predicate[KeyOf(kind, r)] = "Take")
               IN  /\ kind = "VersionedMap" =>
                         \A k \in DOMAIN loaded.field.base :
                            \E m \in DOMAIN taken :
                               taken[m] = <<k, loaded.field.base[k]>>
                   /\ kind = "Map" =>
                         \A k \in DOMAIN loaded.field :
                            \E m \in DOMAIN taken :
                               taken[m] = <<k, loaded.field[k]>>
                   /\ kind = "LinkedList" => ListIter(loaded.field) = taken
                   /\ kind = "List" => loaded.field = taken
(***************************************************************************)
(* Claims about the Cache backend.                                         *)
(***************************************************************************)
(* C16. In every state that write_object, read_object, read_fresh and keep_warm lead to, the ids of the warm set and the ids of the LRU together, at BLOCK_SIZE each, take at most size_limit. *)
C16_SizeWithinLimit ==
    BLOCK_SIZE * (Cardinality(warm) + Len(file_list)) <= SizeLimit

(* C17. After a keep_warm(ids) that returned Ok, a write_object deletes the local file of no id of ids and leaves no id of ids in the LRU, whatever it evicts. *)
C17_WritesSpareTheWarmSet ==
    [][out'.op = "write_object" =>
          \A id \in kept :
             /\ ~Tracked(file_list', id)
             /\ ~\E i \in DOMAIN out'.evicted : out'.evicted[i] = id
             /\ files[id] # NoObject => files'[id] # NoObject]_vars

C17_Witness ==
    /\ out.op = "write_object"
    /\ out.evicted # <<>>
    /\ kept # {}
    /\ \A id \in kept : files[id] # NoObject
    /\ out.id \notin kept

(* C18. The objects a call evicts are, in order, the ids of the LRU that were written or read least recently, and a read_object that returns Ok for an id of the LRU leaves that id the most recently used. *)
C18_EvictsLeastRecentlyUsed ==
    [][/\ out'.evicted =
             SubSeq(SelectSeq(used, LAMBDA x : Tracked(file_list, x) /\ x \notin warm),
                    1, Len(out'.evicted))
       /\ (/\ out'.op = "read_object"
           /\ out'.st = "ok"
           /\ Tracked(file_list, out'.id)) =>
              file_list'[Len(file_list')] = out'.id]_vars

C18_Witness ==
    /\ out.op = "write_object"
    /\ out.evicted # <<>>
    /\ Len(file_list) > 1
    /\ warm = {}

(* C19. A read_fresh that returns Ok gives the object that upstream holds, whatever the local file holds, and a read_object of the same id made right after it gives that same object. *)
C19_ReadFreshThenReadIsFresh ==
    (out.op = "read_fresh" /\ out.st = "ok") =>
        /\ out.ret = upstream[out.id]
        /\ ReadCacheOrUpstream(CacheState, out.id, mmap).st = "ok"
        /\ ReadCacheOrUpstream(CacheState, out.id, mmap).ret = upstream[out.id]

\* the warm set before and after the keep_warm that is running, if any
WarmSetsNow == IF kw = Idle THEN {warm} ELSE {kw.old, Range(kw.ids)}

(* C20. While a keep_warm runs beside a write_object, what the write sees of the warm set is true of the set before the call or of the set of ids given to it, once keep_warm has returned Ok every id given to it is warm and not in the LRU, and at no time is an id both warm and in the LRU. *)
C20_KeepWarmIsAtomic ==
    /\ [](\A id \in ObjIds : ~(id \in warm /\ Tracked(file_list, id)))
    /\ []((kw.pc = "done" /\ kw.st = "ok") =>
             \A id \in Range(kw.ids) : id \in warm /\ ~Tracked(file_list, id))
    /\ [][(wr.pc = "write" /\ wr'.pc = "put") =>
             \E w \in WarmSetsNow : wr'.seen = (wr.id \in w)]_vars

(* C21. A write_object whose write to upstream succeeded returns Ok and leaves the object in a file of the local directory, whatever warm set a keep_warm that returned Ok has installed. *)
C21_WriteIsAdmitted ==
    out.op = "write_object" =>
        /\ out.st = "ok"
        /\ files[out.id] = upstream[out.id]
(***************************************************************************)
(* Claims on Pool.                                                         *)
(***************************************************************************)
\* the threads that hold an instance of the roster
Holders == {t \in Threads : leases[t].pc = "held" /\ leases[t].enqueue}

(* C22. In a Pool of count >= 1 instances the instances in the channel and the instances held through a PoolRef are the count instances of the roster, each once; a lease returns only an instance taken from the channel, so it waits while all are out, and a drop puts the instance at the end of the channel. *)
C22_RosterIsConserved ==
    /\ [](pool.count >= 1 =>
            /\ Len(pool.queue) + Cardinality(Holders) = pool.count
            /\ \A i \in 1..pool.count :
                  Cardinality({k \in DOMAIN pool.queue : pool.queue[k] = i})
                  + Cardinality({t \in Holders : leases[t].instance = i}) = 1)
    /\ [][\A t \in Threads :
            /\ (leases[t].pc = "recv" /\ leases'[t].pc = "held") =>
                  /\ pool.queue # <<>>
                  /\ leases'[t].instance = Head(pool.queue)
            /\ (leases[t].pc = "held" /\ leases'[t].pc = "none"
                /\ pool.count >= 1) =>
                  pool'.queue = Append(pool.queue, leases[t].instance)]_vars

C22_Witness ==
    /\ pool.count = MaxPool
    /\ pool.queue = <<>>
    /\ Cardinality(Holders) = pool.count
    /\ \E t \in Threads : leases[t].pc = "recv"
(***************************************************************************)
(* Claims on BufferedSink and BufferedStream.                              *)
(***************************************************************************)
\* s is the beginning of t
IsPrefix(s, t) == Len(s) <= Len(t) /\ SubSeq(t, 1, Len(s)) = s

\* the number of chunks that n bytes make
ChunksOf(n) == (n + ChunkRecs - 1) \div ChunkRecs

(* C23. The bytes read from a BufferedStream over a Stream of a finished BufferedSink are, read after read, the bytes that were written for that Stream, and when a read comes back short they are all of them, in their order. *)
C23_StreamRoundTrip ==
    bstream # NoStream =>
        /\ bstream.st = "ok"
        /\ IsPrefix(readback, returned[bstream.of].bytes)
        /\ bstream.eof => readback = returned[bstream.of].bytes

C23_Witness ==
    /\ bstream # NoStream
    /\ bstream.eof
    /\ readback = returned[bstream.of].bytes
    /\ \E i, j \in DOMAIN returned[bstream.of].stream :
          returned[bstream.of].stream[i].object
             # returned[bstream.of].stream[j].object
    /\ \E i, j \in DOMAIN readback : readback[i] # readback[j]

(* C24. Every Stream that a BufferedSink has returned holds one pointer for each ChunkRecs bytes written since the Stream before it and one for a rest, each to the chunk of those bytes, in their order; it is empty exactly when no byte was written, and no two returned Streams hold a pointer to the same place. *)
C24_ClearReturnsTheChunksSince ==
    \A i \in DOMAIN returned :
       /\ Len(returned[i].stream) = ChunksOf(Len(returned[i].bytes))
       /\ \A k \in DOMAIN returned[i].stream :
             returned[i].stream[k].tag =
                SubSeq(returned[i].bytes, (k - 1) * ChunkRecs + 1,
                       Min(k * ChunkRecs, Len(returned[i].bytes)))
       /\ (returned[i].stream = <<>>) <=> (returned[i].bytes = <<>>)
       /\ \A j \in DOMAIN returned : \A k \in DOMAIN returned[i].stream :
             \A l \in DOMAIN returned[j].stream :
                (/\ returned[i].stream[k].object = returned[j].stream[l].object
                 /\ returned[i].stream[k].offs = returned[j].stream[l].offs)
                   => (i = j /\ k = l)

C24_Witness ==
    /\ Len(returned) = 2
    /\ ~bsink.finished
    /\ Len(returned[1].stream) > 1
    /\ Len(returned[1].bytes) % ChunkRecs # 0
    /\ returned[2].stream # <<>>
(***************************************************************************)
(* Claims on the codec of RawChunkPointer.                                 *)
(***************************************************************************)
(* C28. write_to writes RawPointerSize bytes, the first of the buffer, and leaves the others alone; parse of the buffer reads RawPointerSize bytes and gives the pointer that was written, whatever its fields and the byte order of the machine. *)
C28_PointerRoundTrip ==
    /\ codec.op \in {"write_to", "parse"} =>
          /\ codec.next = RawPointerSize
          /\ \A i \in DOMAIN codec.buf :
                i > RawPointerSize => codec.buf[i] = codec.fill
    /\ codec.op = "parse" => codec.pointer = rawptr

C28_Witness ==
    /\ codec.op = "parse"
    /\ endian = "big"
    /\ rawptr.offs = ByteBase
    /\ rawptr.size = ByteBase + 1
    /\ rawptr.object # rawptr.key
    /\ Len(codec.buf) > RawPointerSize
    /\ codec.pointer = rawptr
(* C27. For every scheme and every CleartextHeader that holds a convergence key, seal_root gives a sealed header, and open_root of it with the master key of the scheme gives the root pointer and the convergence key that were sealed. *)
C27_OpenOfSealIsTheHeader ==
    /\ hdr.op = "seal_root" =>
          (hdr.res.ok <=> expose_convergence_key(hdr.header.key).some)
    /\ (hdr.op = "open_root" /\ hdr.opener = hdr.scheme.master_key) =>
          /\ hdr.res.ok
          /\ hdr.res.root_ptr = hdr.header.root_ptr
          /\ expose_convergence_key(hdr.res.key)
                = expose_convergence_key(hdr.header.key)

C27_Witness ==
    /\ hdr.op = "open_root"
    /\ hdr.opener = hdr.scheme.master_key
    /\ hdr.res.ok
    /\ hdr.header.root_ptr.offs = U32Max
    /\ hdr.header.root_ptr.object # hdr.header.root_ptr.tag
    /\ expose_convergence_key(hdr.res.key).key # hdr.header.root_ptr.object
    /\ expose_convergence_key(hdr.res.key).key # hdr.scheme.master_key
    /\ hdr.scheme.scheme = "MixedScheme"
    /\ endian = "big"

(* C26. After a tree is opened with ChangeHeaderKey::swap_on_seal(old, new) and resealed, the root object of the new header key holds the commit list the tree had, no commit more, and the convergence key that the old header held; and opening with a key of the new credentials succeeds and gives the same commit list, the same contents and that convergence key. *)
C26_ResealKeepsTheTree ==
    /\ rot.swap.st \in {"resealed", "reopened"} =>
          /\ rot.store[root_object_id(rot.swap.new)].some
          /\ rot.store[root_object_id(rot.swap.new)].body.commit_list
                = rot.swap.commit_list
          /\ SealedConvergence(rot.store, rot.swap.new, endian)
                = rot.swap.convergence
    /\ (rot.swap.st = "reopened" /\ rot.last = "open") =>
          /\ rot.ok
          /\ rot.tree.commit_list = rot.swap.commit_list
          /\ rot.tree.contents = rot.swap.contents
          /\ rot.tree.key.convergence = rot.swap.convergence

C26_Witness ==
    /\ rot.swap.st = "reopened"
    /\ rot.last = "open"
    /\ rot.ok
    /\ rot.swap.old # rot.swap.new
    /\ rot.swap.key.convergence # rot.swap.convergence
    /\ Len(rot.tree.commit_list) = MaxRotCommits
    /\ rot.tree.contents = NumRotVals
    /\ endian = "big"

(* C30. When sync returns, no write that a write_object call started before the sync is still in flight: each has finished, panicked or was cancelled by a later write of the same ObjectId. *)
C30_SyncLeavesNoWriteInFlight ==
    (tracker.pc = "idle" /\ tracker.last = "sync") =>
       InFlight(tracker.tasks) = {}

(* C29. After the commit, two index keys under which the same blob was written hold the same ChunkPointer, and the backend stores exactly one chunk of that blob. *)
C29_SameBlobIsStoredOnce ==
    blobs.committed =>
       \A i, j \in DOMAIN blobs.index :
          blobs.index[i].blob = blobs.index[j].blob =>
             /\ blobs.index[i].pointer = blobs.index[j].pointer
             /\ Cardinality({c \in StoredChunks(blobs.st) :
                               c.data = blobs.index[i].blob}) = 1

(* C31. For each ObjectId at most one write that was not cancelled is in flight at any time, and once sync has returned Ok, no PUT having failed, the bucket holds for every id that was written the object of the most recent write_object call. *)
C31_OneWriteInFlightAndLatestStored ==
    /\ \A id \in S3Ids :
          Cardinality({t \in InFlight(tracker.tasks) :
                          tracker.tasks[t].key = id}) <= 1
    /\ ( /\ tracker.pc = "idle" /\ tracker.last = "sync"
         /\ tracker.res = "Ok"
         /\ \A t \in DOMAIN tracker.tasks :
               tracker.tasks[t].st # "panicked" )
          => \A id \in S3Ids :
                LatestWrite(tracker.tasks, id) # 0 =>
                   tracker.stored[id] = LatestWrite(tracker.tasks, id)

(* C32. Every store of a LinkedList field that no rollback came before writes exactly the nodes from first_in_commit onward, and no store writes a node that an earlier store has written. *)
C32_StoreWritesOnlyTheNewItems ==
    /\ \A k \in DOMAIN list.stored :
          ~list.stored[k].rolled =>
             list.stored[k].written = list.stored[k].fresh
    /\ \A j \in DOMAIN list.stored : \A k \in DOMAIN list.stored :
          j < k => Range(list.stored[j].written)
                      \cap Range(list.stored[k].written) = {}

(* C33. Whenever no push is under way, iterating from first() visits every node that was pushed exactly once, and last() is the final node of the iteration. *)
C33_PushLosesNoNode ==
    Quiet(list) =>
       /\ Len(Iter(list)) = Len(list.nodes)
       /\ Range(Iter(list)) = DOMAIN list.nodes
       /\ list.last = IF Iter(list) = <<>> THEN 0
                      ELSE Iter(list)[Len(Iter(list))]

(* C37. After a rollback and until the next commit, whenever no push is under way, iter() yields the nodes that were in the list at the last commit followed by the nodes pushed after the rollback, in the order of their pushes. *)
C37_RollbackRestoresTheCommit ==
    (list.rolled /\ Quiet(list)) =>
       Iter(list) = list.at_commit \o
                       [i \in 1..(Len(list.nodes) - list.at_rollback)
                           |-> list.at_rollback + i]

(* C34. Map::insert never replaces the value of a key, and every insert that has returned gave back the value that the key has in the map. *)
C34_InsertReturnsTheStoredValue ==
    /\ [][\A key \in DOMAIN cmap.map :
             key \in DOMAIN cmap'.map /\ cmap'.map[key] = cmap.map[key]]_vars
    /\ [](\A t \in MapThreads :
             cmap.th[t].pc = "returned" =>
                /\ cmap.th[t].key \in DOMAIN cmap.map
                /\ cmap.th[t].ret = cmap.map[cmap.th[t].key])

(* C35. Whenever no store is under way, the base of the map holds for every key the value that the streams written so far give it: nothing is folded into the base that no stream has. *)
C35_BaseIsWhatTheStreamsHold ==
    vstore.pc = "idle" =>
       \A k \in Keys :
          (IF k \in DOMAIN base THEN base[k] ELSE None)
             = Replayed(vstore.streams, k)

(* C36. A read_object of a Directory that succeeds returns the content that the most recent write_object gave the id. *)
C36_ReadIsTheLatestWrite ==
    (out.op = "read_object" /\ out.st = "ok") => out.ret = files[out.id]

(* C38. On a tree that was opened and has only loaded since, a load_all under a filter that selects at least one commit leaves every key of the map with the value that the commits selected by the filter give it. *)
C38_LoadAllReflectsTheFilter ==
    ( /\ lastOp \in {"load_all", "open_load_all"}
      /\ status = "ok"
      /\ reopened /\ sealed.some /\ sealed.direct
      /\ current = EmptyMap
      /\ ApplyCommitFilter(commit_list, commit_filter).list # <<>> )
       => View(base, current)
             = LoadedView(backend, transaction_log, commit_list,
                          commit_filter)

(* C39. Every object that has a file in the local directory of the Cache is in the warm set or in the LRU. *)
C39_EveryFileIsTracked ==
    \A id \in ObjIds :
       files[id] # NoObject => (id \in warm \/ Tracked(file_list, id))

(* C40. Every pointer that write_chunk returned names bytes inside the object, behind the header region when the writer is a root writer, and no two pointers of one ObjectId overlap; a chunk that does not fit the tail of the object is written at the start of the next object, after the object was flushed. *)
C40_PointersAreInsideAndApart ==
    /\ [](\A i \in DOMAIN aead.ptrs :
             /\ aead.ptrs[i].offs >= aead.mode.header_size
             /\ aead.ptrs[i].offs + aead.ptrs[i].size <= ObjCap
             /\ \A j \in DOMAIN aead.ptrs :
                   (i < j /\ aead.ptrs[i].object = aead.ptrs[j].object) =>
                      aead.ptrs[i].offs + aead.ptrs[i].size
                         <= aead.ptrs[j].offs)
    /\ [][(/\ aead'.last.op = "write_chunk" /\ aead'.last.st = "Ok"
           /\ aead.pos + aead'.last.size > ObjCap)
             => /\ aead'.flushed = Append(aead.flushed, aead.id)
                /\ aead'.id # aead.id
                /\ aead'.ptrs[Len(aead'.ptrs)]
                     = [object |-> aead'.id,
                        offs |-> aead.mode.header_size,
                        size |-> aead'.last.size]]_vars

\* a root writer has flushed its object for a chunk that did not fit, and
\* two of its pointers are in one object
C40_Witness ==
    /\ aead.mode.kind = "SealRoot"
    /\ aead.last.op = "write_chunk" /\ aead.last.st = "Ok"
    /\ aead.last.flushed
    /\ \E i \in DOMAIN aead.ptrs : \E j \in DOMAIN aead.ptrs :
          i < j /\ aead.ptrs[i].object = aead.ptrs[j].object

====
